---- MODULE Spec2Model ----
(***************************************************************************)
(* A model of ygrader's grading session engine: the deduction store        *)
(* (ygrader/deductions.py), the scoring prompt (ygrader/score_input.py),   *)
(* the per-item grading loop (ygrader/grading_item.py), the sequential     *)
(* session loop and the parallel build-only path (ygrader/grader.py).      *)
(***************************************************************************)
EXTENDS Integers, Sequences, FiniteSets, TLC

(***************************************************************************)
(* Bounds of the model and inputs of a session.                            *)
(***************************************************************************)

\* Number of rows (groups) of the roster, in grading order.
NumGroups == 3

\* Number of grade items added with add_item_to_grade.
NumItems == 2

\* Largest deduction type id a session creates (ids grow without bound in
\* the code; the actions that create a type are guarded by this cap).
MaxTypeId == 1

\* Largest deduction type id the store-level specification creates.
MaxApiTypeId == 2

\* max_points of a grade item that is added with max_points.
MaxPoints == 10

Items == 1 .. NumItems

\* Python's None where a string is optional (a submit time, a result).
None == "None"

\* Python's None where a tuple of net_ids is optional.
NoNetIds == <<>>

\* tuple(net_ids) of the roster row r: the key of a group in every store.
NetIds(r) == <<r>>

Groups == {NetIds(r) : r \in 1 .. NumGroups}

Max(S) == CHOOSE x \in S : \A y \in S : y <= x

Min(S) == CHOOSE x \in S : \A y \in S : x <= y

Range(f) == {f[x] : x \in DOMAIN f}

\* Python dict operations: d[k] = v, and del d[k].
DictSet(d, k, v) == [x \in (DOMAIN d) \cup {k} |-> IF x = k THEN v ELSE d[x]]

DictDel(d, k) == [x \in (DOMAIN d) \ {k} |-> d[x]]

(***************************************************************************)
(* StudentDeductions (deductions.py).  A store is a record of the three    *)
(* dictionaries of the object and of the file at yaml_path, as the last    *)
(* _save wrote it.  A group's list holds references to the                 *)
(* DeductionType objects of deduction_types; an object is stored under     *)
(* exactly one id, so a reference is modelled by that id and the points    *)
(* are read through the table (change_deduction_value mutates the shared   *)
(* object in place).  deduction_types keeps insertion order, which is the  *)
(* ascending order of the ids because a new id is above every present one. *)
(***************************************************************************)

\* The deductions file of a store before it was ever written.
NoFile == [exists |-> FALSE, deduction_types |-> <<>>, student_deductions |-> <<>>]

\* StudentDeductions.__init__ when yaml_path is no file yet.
EmptyStore ==
    [deduction_types |-> <<>>,
     deductions_by_students |-> <<>>,
     submit_time_by_students |-> <<>>,
     file |-> NoFile]

\* _write_yaml: the data dumped to yaml_path. The types are written with
\* id, desc and points; one entry is written for every group that has a
\* list of deductions or a submit time, with the ids of the types its list
\* holds, and with submit_time only when the group has one.
_write_yaml(s) ==
    [exists |-> TRUE,
     deduction_types |->
        [id \in DOMAIN s.deduction_types |->
            [id |-> id,
             desc |-> s.deduction_types[id].message,
             points |-> s.deduction_types[id].points]],
     student_deductions |->
        [g \in DOMAIN s.deductions_by_students \cup DOMAIN s.submit_time_by_students |->
            [net_ids |-> g,
             deductions |->
                IF g \in DOMAIN s.deductions_by_students
                THEN SelectSeq(s.deductions_by_students[g],
                               LAMBDA d : d \in DOMAIN s.deduction_types)
                ELSE <<>>,
             submit_time |->
                IF g \in DOMAIN s.submit_time_by_students
                THEN s.submit_time_by_students[g]
                ELSE None]]]

\* A save that writes nothing.
_no_save(s) == s

\* _save: yaml_path is set for every item the grader holds.
_save(s) == [s EXCEPT !.file = _write_yaml(s)]

\* _load_from_yaml: the types by id; for every entry the list of the ids
\* that name a loaded type, and the submit time when the entry has one.
_load_from_yaml(file) ==
    [deduction_types |->
        [id \in DOMAIN file.deduction_types |->
            [message |-> file.deduction_types[id].desc,
             points |-> file.deduction_types[id].points]],
     deductions_by_students |->
        [g \in DOMAIN file.student_deductions |->
            SelectSeq(file.student_deductions[g].deductions,
                      LAMBDA d : d \in DOMAIN file.deduction_types)],
     submit_time_by_students |->
        [g \in {k \in DOMAIN file.student_deductions :
                    file.student_deductions[k].submit_time # None} |->
            file.student_deductions[g].submit_time],
     file |-> file]

\* StudentDeductions.__init__: the file is loaded when it exists.
StudentDeductions(file) ==
    IF file.exists THEN _load_from_yaml(file) ELSE EmptyStore

\* The id add_deduction_type assigns.
NextIdByCount(s) == Cardinality(DOMAIN s.deduction_types) + 1

NextId(s) ==
    IF DOMAIN s.deduction_types # {}
    THEN Max(DOMAIN s.deduction_types) + 1
    ELSE 1

\* add_deduction_type: the store and the returned id; ValueError is raised
\* when the points are negative, and nothing is stored.
add_deduction_type(s, message, points) ==
    IF points < 0
    THEN [store |-> s, raised |-> TRUE]
    ELSE [store |-> _save([s EXCEPT !.deduction_types =
                        DictSet(@, NextId(s), [message |-> message, points |-> points])]),
          ret |-> NextId(s),
          raised |-> FALSE]

\* A lookup that brings the found type's points up to the argument.
find_or_update_deduction_type(s, message, points) ==
    LET found == {id \in DOMAIN s.deduction_types :
                    s.deduction_types[id].message = message}
    IN  IF found # {}
        THEN [store |-> _save([s EXCEPT !.deduction_types[Min(found)].points = points]),
              ret |-> Min(found), raised |-> FALSE]
        ELSE add_deduction_type(s, message, points)

\* find_or_create_deduction_type: the first type whose message is equal.
find_or_create_deduction_type(s, message, points) ==
    LET found == {id \in DOMAIN s.deduction_types :
                    s.deduction_types[id].message = message}
    IN  IF found # {}
        THEN [store |-> s, ret |-> Min(found), raised |-> FALSE]
        ELSE add_deduction_type(s, message, points)

is_deduction_in_use(s, deduction_id) ==
    /\ deduction_id \in DOMAIN s.deduction_types
    /\ \E g \in DOMAIN s.deductions_by_students :
          deduction_id \in Range(s.deductions_by_students[g])

\* A deletion that does not look at the groups' lists.
delete_deduction_type_unchecked(s, deduction_id) ==
    IF deduction_id \notin DOMAIN s.deduction_types
    THEN [store |-> s, ret |-> FALSE]
    ELSE [store |-> _save([s EXCEPT !.deduction_types = DictDel(@, deduction_id)]),
          ret |-> TRUE]

delete_deduction_type(s, deduction_id) ==
    IF deduction_id \notin DOMAIN s.deduction_types
    THEN [store |-> s, ret |-> FALSE]
    ELSE IF is_deduction_in_use(s, deduction_id)
    THEN [store |-> s, ret |-> FALSE]
    ELSE [store |-> _save([s EXCEPT !.deduction_types = DictDel(@, deduction_id)]),
          ret |-> TRUE]

\* A change that gives the new points to every type of the table.
change_every_deduction_value(s, deduction_id, new_points) ==
    IF deduction_id \notin DOMAIN s.deduction_types
    THEN [store |-> s, ret |-> FALSE]
    ELSE [store |-> _save([s EXCEPT !.deduction_types =
                        [id \in DOMAIN @ |-> [@[id] EXCEPT !.points = new_points]]]),
          ret |-> TRUE]

change_deduction_value(s, deduction_id, new_points) ==
    IF deduction_id \notin DOMAIN s.deduction_types
    THEN [store |-> s, ret |-> FALSE]
    ELSE [store |-> _save([s EXCEPT !.deduction_types[deduction_id].points = new_points]),
          ret |-> TRUE]

get_student_deductions(s, net_ids) ==
    IF net_ids \in DOMAIN s.deductions_by_students
    THEN s.deductions_by_students[net_ids]
    ELSE <<>>

\* "deduction_type not in list": DeductionType defines no __eq__, so the
\* membership test compares object identity.
AppliedByIdentity(s, net_ids, deduction_id) ==
    deduction_id \in Range(get_student_deductions(s, net_ids))

\* A membership test that compares message and points instead.
AppliedByValue(s, net_ids, deduction_id) ==
    \E d \in Range(get_student_deductions(s, net_ids)) :
        s.deduction_types[d] = s.deduction_types[deduction_id]

Applied(s, net_ids, deduction_id) == AppliedByIdentity(s, net_ids, deduction_id)

\* An apply that makes the group's entry before it looks at the id.
apply_deduction_creating_record(s, net_ids, deduction_id) ==
    IF deduction_id \notin DOMAIN s.deduction_types
    THEN [store |-> IF net_ids \in DOMAIN s.deductions_by_students
                    THEN s
                    ELSE _save([s EXCEPT !.deductions_by_students =
                                   DictSet(@, net_ids, <<>>)]),
          ret |-> FALSE]
    ELSE IF Applied(s, net_ids, deduction_id)
    THEN [store |-> s, ret |-> TRUE]
    ELSE [store |-> _save([s EXCEPT !.deductions_by_students =
                        DictSet(@, net_ids,
                                Append(get_student_deductions(s, net_ids), deduction_id))]),
          ret |-> TRUE]

apply_deduction_to_student(s, net_ids, deduction_id) ==
    IF deduction_id \notin DOMAIN s.deduction_types
    THEN [store |-> s, ret |-> FALSE]
    ELSE IF Applied(s, net_ids, deduction_id)
    THEN [store |-> s, ret |-> TRUE]
    ELSE [store |-> _save([s EXCEPT !.deductions_by_students =
                        DictSet(@, net_ids,
                                Append(get_student_deductions(s, net_ids), deduction_id))]),
          ret |-> TRUE]

\* A clear that forgets the submit time.
clear_keeping_submit_time(s, net_ids) ==
    _save([s EXCEPT !.deductions_by_students = DictDel(@, net_ids)])

clear_student_deductions(s, net_ids) ==
    _save([s EXCEPT !.deductions_by_students = DictDel(@, net_ids),
                    !.submit_time_by_students = DictDel(@, net_ids)])

ensure_student_in_file(s, net_ids) ==
    IF net_ids \notin DOMAIN s.deductions_by_students
    THEN _save([s EXCEPT !.deductions_by_students = DictSet(@, net_ids, <<>>)])
    ELSE s

is_student_graded(s, net_ids) == net_ids \in DOMAIN s.deductions_by_students

\* set_submit_time: a falsy submit_time (None) removes the entry.
set_submit_time(s, net_ids, submit_time) ==
    IF submit_time # None
    THEN _save([s EXCEPT !.submit_time_by_students = DictSet(@, net_ids, submit_time)])
    ELSE _save([s EXCEPT !.submit_time_by_students = DictDel(@, net_ids)])

get_submit_time(s, net_ids) ==
    IF net_ids \in DOMAIN s.submit_time_by_students
    THEN s.submit_time_by_students[net_ids]
    ELSE None

RECURSIVE SumPoints(_, _)
SumPoints(types, ids) ==
    IF ids = <<>> THEN 0
    ELSE types[Head(ids)].points + SumPoints(types, Tail(ids))

total_deductions(s, net_ids) ==
    SumPoints(s.deduction_types, get_student_deductions(s, net_ids))

(***************************************************************************)
(* The session: Grader._run_grading_sequential (grader.py), one call of    *)
(* GradeItem.run_grading per item (grading_item.py) and get_score          *)
(* (score_input.py).                                                       *)
(***************************************************************************)

VARIABLES
    student_deductions,    \* item -> the item's StudentDeductions
    last_graded_net_ids,   \* Grader.last_graded_net_ids
    idx,                   \* _run_grading_sequential: index into rows_list (from 1)
    prev_idx,              \* _run_grading_sequential: previous index, NoIdx for None
    pc,                    \* where the session is waiting
    item,                  \* the item whose run_grading is active
    build,                 \* run_grading: the build flag of the next callback call
    callback_result,       \* run_grading: what the callback returned
    pending_submit_time,   \* run_grading: submit time read from .commitdate
    computed_score,        \* get_score: the score shown at the last render
    ret,                   \* the result of the last direct call on a store
    undone,                \* history: the group whose grade the last undo removed,
                           \*   while no group has finished since
    reopened,              \* history: the group whose grade was deleted at the
                           \*   completion menu, until its callback runs again
    item_max_points,       \* item -> GradeItem.max_points, NoMaxPoints for None
    build_only,            \* Grader.build_only
    parallel_workers,      \* Grader.parallel_workers, NoWorkers for None
    futures,               \* _run_grading_parallel: row -> the state of its task
    work_path,             \* row -> the group's directory below Grader.work_path
    archive,               \* the version of the submissions zip file on disk
    zip_newer,             \* the zip file is newer than the work_path directory
    success_count,         \* _run_grading_parallel: counters of the report
    fail_count,
    skip_count,
    run_only,              \* Grader.run_only
    infolist,              \* the entries of the zip file that match the group acquired
    due_date,              \* assemble_grades: the due date of the assignment
    due_date_exceptions,   \* net_id -> the due date of its exception
    feedback               \* what _calculate_student_score returned last

\* The variables of the build-only path.
build_vars == <<build_only, parallel_workers, futures, work_path, archive, zip_newer,
                success_count, fail_count, skip_count>>

\* The variables of the grades report.
report_vars == <<due_date, due_date_exceptions, feedback>>

vars == <<student_deductions, last_graded_net_ids, idx, prev_idx, pc, item, build,
          callback_result, pending_submit_time, computed_score, ret, undone,
          item_max_points, build_vars, run_only, infolist, report_vars, reopened>>

\* max_points = None: an item added without max_points.
NoMaxPoints == -1

\* parallel_workers = None.
NoWorkers == 0

\* The rows of the class list, one per group.
Rows == 1 .. NumGroups

\* A row for which _run_grading_parallel has submitted no task.
NotSubmitted == [stage |-> "none", item |-> 0, success |-> "None", log |-> ""]

\* A group's directory that does not exist.
NoDir == [exists |-> FALSE, files |-> <<>>]

\* due_date = None, and a submitted_datetime of None.
NoDate == 0

\* No score was calculated.
NoFeedback == [net_id |-> 0, score |-> 0, total_possible |-> 0,
               effective_due_date |-> NoDate, submitted_datetime |-> NoDate,
               penalized |-> FALSE, text_score |-> 0]

\* No grades report is assembled.
NoReport ==
    /\ due_date = NoDate
    /\ due_date_exceptions = <<>>
    /\ feedback = NoFeedback

\* The Grader before set_other_options and run: the defaults of __init__,
\* a work_path without directories and no zip file read.
NoBuild ==
    /\ build_only = FALSE
    /\ run_only = FALSE
    /\ infolist = <<>>
    /\ parallel_workers = NoWorkers
    /\ futures = [r \in Rows |-> NotSubmitted]
    /\ work_path = [r \in Rows |-> NoDir]
    /\ archive = 1
    /\ zip_newer = FALSE
    /\ success_count = 0
    /\ fail_count = 0
    /\ skip_count = 0

\* prev_idx = None.
NoIdx == 0

\* No run_grading is active.
NoItem == 0

\* The group of the current row.
net_ids == NetIds(idx)

\* The .commitdate file of the row's working directory: the first row has
\* none, the last row's does not parse, the others hold a date.
CommitDateFile(r) ==
    IF r = 1 THEN "missing" ELSE IF r = NumGroups THEN "malformed" ELSE "valid"

\* run_grading: the submit time read from .commitdate, as isoformat().
CommitDate(r) == IF CommitDateFile(r) = "valid" THEN "2026-01-12T21:51:14" ELSE None

\* What a callback does when called: return None, return a list of
\* (message, points) pairs, return something else, raise CallbackFailed, or
\* be interrupted from the keyboard.
CallbackLists ==
    {<<>>, <<[message |-> "Missing header", points |-> 12]>>}

NoResult == [kind |-> "None", list |-> <<>>]

CallbackOutcomes ==
    {NoResult,
     [kind |-> "CallbackFailed", list |-> <<>>],
     [kind |-> "KeyboardInterrupt", list |-> <<>>],
     [kind |-> "invalid", list |-> <<>>]}
    \cup {[kind |-> "list", list |-> l] : l \in CallbackLists}

NoRet == [op |-> "None", ok |-> FALSE, id |-> 0, net_ids |-> NoNetIds]

\* int(part) and float(part) of the texts the operator types; a text
\* outside the table raises ValueError.
Numbers ==
    [t \in {"-1", "0", "1", "2", "3", "9", "10", "11"} |->
        CASE t = "-1" -> -1
          [] t = "0" -> 0
          [] t = "1" -> 1
          [] t = "2" -> 2
          [] t = "3" -> 3
          [] t = "9" -> 9
          [] t = "10" -> 10
          [] t = "11" -> 11]

IsNumber(t) == t \in DOMAIN Numbers

\* What the operator types at the scoring prompt, split at the commas
\* ("1,2" is <<"1", "2">>, the empty line is <<"">>).
PromptTexts ==
    {<<"">>, <<"0">>, <<"s">>, <<"b">>, <<"r">>, <<"n">>, <<"d">>, <<"v">>,
     <<"g">>, <<"u">>, <<"e">>, <<"x">>, <<"1">>, <<"2">>, <<"-1">>,
     <<"1", "1">>, <<"1", "2">>, <<"1", "9">>, <<"1", "x">>, <<"1", "0">>}

\* What the operator types at "Description:".
DescriptionTexts == {"", "Missing header"}

\* What the operator types at a points prompt until it is answered.
PointsTexts == {<<"">>, <<"3">>, <<"-1", "3">>, <<"11", "3">>, <<"x", "">>}

\* What the operator types at "Enter ID to delete/modify:".
IdTexts == {"", "x", "1", "2"}

\* What the operator types when asked to select an item.
SelectTexts == {"", "x", "0", "1", "2", "3"}

\* What the operator types at "[y/N]" and "[y/n]" questions.
ConfirmTexts == {"y", "n", ""}

\* get_score: max(0, max_points - deductions_total).
Unclamped(max_points, deductions_total) == max_points - deductions_total

ComputedScore(max_points, deductions_total) ==
    IF max_points - deductions_total > 0 THEN max_points - deductions_total ELSE 0

\* get_score, top of the loop: the score of the render.
Render(sd, i, g) == ComputedScore(item_max_points[i], total_deductions(sd[i], g))

\* A menu that offers undo whether or not a group was graded last.
AllowedCmdsWithUndo(last) == {"s", "b", "r", "g", "e", "n", "d", "0", "v", "u"}

\* get_score: the keys of allowed_cmds, built from left_items and right_items
\* (rebuild and rerun are allowed by default).
AllowedCmds(last) ==
    {"s", "b", "r", "g", "e", "n", "d", "0", "v"}
    \cup (IF last # NoNetIds THEN {"u"} ELSE {})

\* A validation that looks at the first part of the list only.
FirstValid(s, parts) ==
    \/ parts = <<>>
    \/ /\ IsNumber(Head(parts))
       /\ Numbers[Head(parts)] > 0
       /\ Numbers[Head(parts)] \in DOMAIN s.deduction_types

\* get_score: the parts of a comma-separated list are all ids of the table.
RECURSIVE AllValid(_, _)
AllValid(s, parts) ==
    IF parts = <<>> THEN TRUE
    ELSE /\ IsNumber(Head(parts))
         /\ Numbers[Head(parts)] > 0
         /\ Numbers[Head(parts)] \in DOMAIN s.deduction_types
         /\ AllValid(s, Tail(parts))

\* get_score: the branch an input takes.
Dispatch(s, txt, last) ==
    IF txt = <<"">> THEN "accept"
    ELSE IF Len(txt) = 1 /\ txt[1] \in AllowedCmds(last) THEN txt[1]
    ELSE IF txt = <<"0">> THEN "clear"
    ELSE IF AllValid(s, txt) THEN "apply"
    ELSE "invalid"

\* get_score: valid_ids, the parts collected before the loop over the list
\* ends or breaks at a part that is no id of the table.
RECURSIVE ValidIds(_, _)
ValidIds(s, parts) ==
    IF parts = <<>> THEN <<>>
    ELSE IF /\ IsNumber(Head(parts))
            /\ Numbers[Head(parts)] > 0
            /\ Numbers[Head(parts)] \in DOMAIN s.deduction_types
         THEN <<Head(parts)>> \o ValidIds(s, Tail(parts))
         ELSE <<>>

\* get_score: apply_deduction_to_student for each id of the list.
RECURSIVE ApplyAll(_, _, _)
ApplyAll(s, g, parts) ==
    IF parts = <<>> THEN s
    ELSE ApplyAll(apply_deduction_to_student(s, g, Numbers[Head(parts)]).store,
                  g, Tail(parts))

\* The points loops of create_deduction_type_interactive and
\* change_deduction_value_interactive: "cancel" on an empty line, the first
\* number that is neither negative nor above max_points otherwise
\* ("waiting" while no entry has ended the loop).
RECURSIVE ReadPoints(_, _)
ReadPoints(entries, max_points) ==
    IF entries = <<>> THEN [kind |-> "waiting", points |-> 0]
    ELSE IF Head(entries) = "" THEN [kind |-> "cancel", points |-> 0]
    ELSE IF ~IsNumber(Head(entries)) THEN ReadPoints(Tail(entries), max_points)
    ELSE IF Numbers[Head(entries)] < 0 THEN ReadPoints(Tail(entries), max_points)
    ELSE IF max_points # NoMaxPoints /\ Numbers[Head(entries)] > max_points
         THEN ReadPoints(Tail(entries), max_points)
    ELSE [kind |-> "points", points |-> Numbers[Head(entries)]]

\* _select_item_interactive: the selected item, NoItem when cancelled.
SelectItem(txt) ==
    IF NumItems = 1 THEN 1
    ELSE IF txt = "" THEN NoItem
    ELSE IF ~IsNumber(txt) THEN NoItem
    ELSE IF Numbers[txt] >= 1 /\ Numbers[txt] <= NumItems THEN Numbers[txt]
    ELSE NoItem

\* delete_deduction_type_interactive on a store.
delete_deduction_type_interactive(s, id_str) ==
    IF DOMAIN s.deduction_types = {} THEN s
    ELSE IF id_str = "" THEN s
    ELSE IF ~IsNumber(id_str) THEN s
    ELSE IF Numbers[id_str] \notin DOMAIN s.deduction_types THEN s
    ELSE IF is_deduction_in_use(s, Numbers[id_str]) THEN s
    ELSE delete_deduction_type(s, Numbers[id_str]).store

\* change_deduction_value_interactive on a store.
change_deduction_value_interactive(s, id_str, entries, max_points) ==
    IF DOMAIN s.deduction_types = {} THEN s
    ELSE IF id_str = "" THEN s
    ELSE IF ~IsNumber(id_str) THEN s
    ELSE IF Numbers[id_str] \notin DOMAIN s.deduction_types THEN s
    ELSE IF ReadPoints(entries, max_points).kind # "points" THEN s
    ELSE change_deduction_value(s, Numbers[id_str],
                                ReadPoints(entries, max_points).points).store

\* _manage_grades_interactive: the groups graded in some item.
AllGradedStudents(sd) ==
    UNION {DOMAIN sd[i].deductions_by_students : i \in Items}

\* Clearing a group in the store of the first item only.
ClearInFirstItem(sd, g) == [sd EXCEPT ![1] = clear_student_deductions(@, g)]

\* Clearing a group in the store of every item.
ClearInAllItems(sd, g) == [i \in Items |-> clear_student_deductions(sd[i], g)]

\* An automatic scoring that creates the types and applies none.
RECURSIVE AutoCreateOnly(_, _, _)
AutoCreateOnly(s, g, list) ==
    IF list = <<>> THEN [store |-> s, raised |-> FALSE]
    ELSE IF Head(list).points < 0 THEN [store |-> s, raised |-> TRUE]
    ELSE AutoCreateOnly(
            find_or_create_deduction_type(s, Head(list).message, Head(list).points).store,
            g, Tail(list))

\* run_grading, automatic deductions: find_or_create_deduction_type and
\* apply_deduction_to_student for each pair, in order; a negative pair raises
\* ValueError and leaves what the pairs before it did.
RECURSIVE AutoApply(_, _, _)
AutoApply(s, g, list) ==
    IF list = <<>> THEN [store |-> s, raised |-> FALSE]
    ELSE IF Head(list).points < 0 THEN [store |-> s, raised |-> TRUE]
    ELSE AutoApply(
            apply_deduction_to_student(
                find_or_create_deduction_type(s, Head(list).message, Head(list).points).store,
                g,
                find_or_create_deduction_type(s, Head(list).message, Head(list).points).ret).store,
            g, Tail(list))

\* A record of the score that saves the submit time and no more.
SubmitTimeOnly(s, g, submit_time) == set_submit_time(s, g, submit_time)

\* run_grading: "Record score": set_submit_time, then ensure_student_in_file.
RecordScore(s, g, submit_time) ==
    ensure_student_in_file(set_submit_time(s, g, submit_time), g)

\* A check that takes every group to need a grade.
NeedsGradeAlways(s, g) == TRUE

\* num_grades_needed_deductions(net_ids) > 0.
NeedsGrade(s, g) == ~is_student_graded(s, g)

\* A loop that records the last graded group and leaves prev_idx as it was.
ContinueKeepingPrev(sd, k) ==
    LET need == {j \in Items : j >= k /\ ~is_student_graded(sd[j], net_ids)}
    IN  IF need # {}
        THEN [pc |-> "callback", item |-> Min(need), idx |-> idx,
              prev_idx |-> prev_idx, last |-> last_graded_net_ids, undone |-> undone]
        ELSE [pc |-> "loop", item |-> NoItem, idx |-> idx + 1,
              prev_idx |-> prev_idx, last |-> net_ids, undone |-> NoNetIds]

\* A pass that ends stays at the row it was at.
ContinueSameRow(sd, k) ==
    LET need == {j \in Items : j >= k /\ ~is_student_graded(sd[j], net_ids)}
    IN  IF need # {}
        THEN [pc |-> "callback", item |-> Min(need), idx |-> idx,
              prev_idx |-> prev_idx, last |-> last_graded_net_ids, undone |-> undone]
        ELSE [pc |-> "loop", item |-> NoItem, idx |-> idx,
              prev_idx |-> idx, last |-> net_ids, undone |-> NoNetIds]

\* _run_grading_sequential, "for item in self.items" from item k on, after
\* run_grading returned False: an item whose grade exists returns False at
\* once; when no item is left the group becomes the last graded one and the
\* loop moves to the next row.
Continue(sd, k) ==
    LET need == {j \in Items : j >= k /\ NeedsGrade(sd[j], net_ids)}
    IN  IF need # {}
        THEN [pc |-> "callback", item |-> Min(need), idx |-> idx,
              prev_idx |-> prev_idx, last |-> last_graded_net_ids, undone |-> undone]
        ELSE [pc |-> "loop", item |-> NoItem, idx |-> idx + 1,
              prev_idx |-> idx, last |-> net_ids, undone |-> NoNetIds]

\* A go_back that moves on instead of returning to the previous row.
GoBackToNext ==
    [pc |-> "loop", item |-> NoItem, idx |-> idx + 1,
     prev_idx |-> idx, last |-> NoNetIds, undone |-> last_graded_net_ids]

\* _run_grading_sequential after run_grading returned True (go_back).
GoBack ==
    IF prev_idx # NoIdx
    THEN [pc |-> "loop", item |-> NoItem, idx |-> prev_idx,
          prev_idx |-> NoIdx, last |-> NoNetIds, undone |-> last_graded_net_ids]
    ELSE [pc |-> "loop", item |-> NoItem, idx |-> idx + 1,
          prev_idx |-> idx, last |-> last_graded_net_ids, undone |-> undone]

Goto(c) ==
    /\ pc' = c.pc
    /\ item' = c.item
    /\ idx' = c.idx
    /\ prev_idx' = c.prev_idx
    /\ last_graded_net_ids' = c.last
    /\ undone' = c.undone

\* The flags run_grading passes to the callback it is about to call: build
\* is the local flag unless run_only is set, run is set by the loop over the
\* rows.
CallbackArgs == [build |-> build /\ ~run_only, run |-> ~build_only]

\* The locals of a run_grading that has returned, or has not reached them.
NoLocals ==
    /\ callback_result' = NoResult
    /\ pending_submit_time' = None
    /\ computed_score' = 0

Init ==
    /\ student_deductions = [i \in Items |-> EmptyStore]
    /\ last_graded_net_ids = NoNetIds
    /\ idx = 1
    /\ prev_idx = NoIdx
    /\ pc = "loop"
    /\ item = NoItem
    /\ build = TRUE
    /\ callback_result = NoResult
    /\ pending_submit_time = None
    /\ computed_score = 0
    /\ ret = NoRet
    /\ undone = NoNetIds
    /\ reopened = NoNetIds
    /\ item_max_points = [i \in Items |-> MaxPoints]
    /\ NoBuild
    /\ NoReport

(***************************************************************************)
(* _run_grading_sequential: the loop over the rows.                        *)
(***************************************************************************)

\* Every row was visited: the completion menu is shown.
LoopEnd ==
    /\ pc = "loop"
    /\ idx > NumGroups
    /\ ~build_only
    /\ pc' = "menu"
    /\ undone' = NoNetIds
    /\ reopened' = NoNetIds
    /\ UNCHANGED <<student_deductions, last_graded_net_ids, idx, prev_idx, item, build,
                   callback_result, pending_submit_time, computed_score, ret,
                   item_max_points, build_vars, run_only, infolist, report_vars>>

\* The group is graded for every item: next row.
LoopAlreadyGraded ==
    /\ pc = "loop"
    /\ idx <= NumGroups
    /\ \A i \in Items : ~NeedsGrade(student_deductions[i], net_ids)
    /\ idx' = idx + 1
    /\ UNCHANGED <<student_deductions, last_graded_net_ids, prev_idx, pc, item, build,
                   callback_result, pending_submit_time, computed_score, ret, item_max_points, build_vars, run_only, infolist, report_vars, reopened, undone>>

\* A failed acquisition after which the group is remembered like a group
\* that went through its items.
LoopAcquireFailedTracked ==
    /\ pc = "loop"
    /\ idx <= NumGroups
    /\ \E i \in Items : NeedsGrade(student_deductions[i], net_ids)
    /\ idx' = idx + 1
    /\ prev_idx' = idx
    /\ last_graded_net_ids' = net_ids
    /\ UNCHANGED <<student_deductions, pc, item, build, callback_result,
                   pending_submit_time, computed_score, ret, item_max_points, build_vars,
                   run_only, infolist, report_vars, reopened, undone>>

\* _get_student_code fails (or prep_fcn raises CallbackFailed): next row.
LoopAcquireFailed ==
    /\ pc = "loop"
    /\ idx <= NumGroups
    /\ \E i \in Items : NeedsGrade(student_deductions[i], net_ids)
    /\ idx' = idx + 1
    /\ UNCHANGED <<student_deductions, last_graded_net_ids, prev_idx, pc, item, build,
                   callback_result, pending_submit_time, computed_score, ret, item_max_points, build_vars, run_only, infolist, report_vars, reopened, undone>>

\* The code is acquired: run_grading of the first item that needs a grade.
LoopGrade ==
    /\ pc = "loop"
    /\ idx <= NumGroups
    /\ \E i \in Items : NeedsGrade(student_deductions[i], net_ids)
    /\ Goto(Continue(student_deductions, 1))
    /\ build' = TRUE
    /\ NoLocals
    /\ reopened' = IF reopened = net_ids THEN NoNetIds ELSE reopened
    /\ UNCHANGED <<student_deductions, ret, item_max_points, build_vars, run_only, infolist,
                   report_vars>>

(***************************************************************************)
(* run_grading: the callback, the verification and the callback's result.  *)
(***************************************************************************)

\* run_grading after the verification: a list is applied and the group
\* marked graded without a prompt, an invalid result ends the item, None
\* hands over to get_score, whose first render raises TypeError (None minus
\* a number) when the item has no max_points.
ProcessResult(result, submit_time) ==
    LET s == student_deductions[item]
        auto == AutoApply(s, net_ids, result.list)
    IN  CASE result.kind = "list" /\ auto.raised ->
               /\ student_deductions' = [student_deductions EXCEPT ![item] = auto.store]
               /\ pc' = "error"
               /\ undone' = NoNetIds
               /\ UNCHANGED <<item, idx, prev_idx, last_graded_net_ids>>
               /\ build' = TRUE
               /\ NoLocals
          [] result.kind = "list" /\ ~auto.raised ->
               LET sd == [student_deductions EXCEPT
                             ![item] = RecordScore(auto.store, net_ids, submit_time)]
               IN  /\ student_deductions' = sd
                   /\ Goto(Continue(sd, item + 1))
                   /\ build' = TRUE
                   /\ NoLocals
          [] result.kind = "invalid" ->
               /\ Goto(Continue(student_deductions, item + 1))
               /\ build' = TRUE
               /\ NoLocals
               /\ UNCHANGED student_deductions
          [] result.kind = "None" /\ item_max_points[item] = NoMaxPoints ->
               /\ pc' = "error"
               /\ undone' = NoNetIds
               /\ build' = TRUE
               /\ NoLocals
               /\ UNCHANGED <<student_deductions, item, idx, prev_idx, last_graded_net_ids>>
          [] OTHER ->
               /\ pc' = "prompt"
               /\ computed_score' = Render(student_deductions, item, net_ids)
               /\ pending_submit_time' = submit_time
               /\ callback_result' = NoResult
               /\ build' = TRUE
               /\ UNCHANGED <<student_deductions, item, idx, prev_idx, last_graded_net_ids,
                              undone>>

\* The types a list would create stay within the cap of the model.
WithinCap(s, list) ==
    \A id \in DOMAIN AutoApply(s, net_ids, list).store.deduction_types :
        id <= MaxTypeId

\* The callback raises CallbackFailed: the item ends for this group.
CallbackFailed ==
    /\ pc = "callback"
    /\ ~build_only
    /\ Goto(Continue(student_deductions, item + 1))
    /\ build' = TRUE
    /\ NoLocals
    /\ UNCHANGED <<student_deductions, ret, item_max_points, build_vars, run_only, infolist, report_vars, reopened>>

\* The callback returns (a KeyboardInterrupt leaves callback_result None) and
\* the workflow verification finds nothing.
CallbackReturns ==
    /\ pc = "callback"
    /\ ~build_only
    /\ CommitDateFile(idx) # "malformed"
    /\ \E result \in CallbackOutcomes :
          /\ result.kind # "CallbackFailed"
          /\ WithinCap(student_deductions[item], result.list)
          /\ ProcessResult(IF result.kind = "KeyboardInterrupt" THEN NoResult ELSE result,
                           CommitDate(idx))
    /\ UNCHANGED <<ret, item_max_points, build_vars, run_only, infolist, report_vars, reopened>>

\* The callback returns and the workflow verification reports errors (a hash
\* mismatch, or a .commitdate that does not parse, which leaves no submit
\* time): the operator is asked whether to grade anyway.
CallbackReturnsUnverified ==
    /\ pc = "callback"
    /\ ~build_only
    /\ \E result \in CallbackOutcomes :
          /\ result.kind # "CallbackFailed"
          /\ WithinCap(student_deductions[item], result.list)
          /\ callback_result' =
                (IF result.kind = "KeyboardInterrupt" THEN NoResult ELSE result)
          /\ pending_submit_time' = CommitDate(idx)
    /\ pc' = "confirm"
    /\ build' = TRUE
    /\ UNCHANGED <<student_deductions, last_graded_net_ids, idx, prev_idx, item,
                   computed_score, ret, item_max_points, build_vars, run_only, infolist, report_vars, reopened, undone>>

\* "Do you want to grade this student anyway?": yes.
ConfirmYes ==
    /\ pc = "confirm"
    /\ ProcessResult(callback_result, pending_submit_time)
    /\ UNCHANGED <<ret, item_max_points, build_vars, run_only, infolist, report_vars, reopened>>

\* A "no" that records the group's score all the same.
ConfirmNoRecording ==
    /\ pc = "confirm"
    /\ LET sd == [student_deductions EXCEPT
                     ![item] = RecordScore(@, net_ids, pending_submit_time)]
       IN  /\ student_deductions' = sd
           /\ Goto(Continue(sd, item + 1))
    /\ build' = TRUE
    /\ NoLocals
    /\ UNCHANGED <<ret, item_max_points, build_vars, run_only, infolist, report_vars, reopened>>

\* "Do you want to grade this student anyway?": no; run_grading returns False.
ConfirmNo ==
    /\ pc = "confirm"
    /\ Goto(Continue(student_deductions, item + 1))
    /\ build' = TRUE
    /\ NoLocals
    /\ UNCHANGED <<student_deductions, ret, item_max_points, build_vars, run_only, infolist, report_vars, reopened>>

\* Any other answer: the question is asked again.
ConfirmOther ==
    /\ pc = "confirm"
    /\ UNCHANGED <<student_deductions, last_graded_net_ids, idx, prev_idx, pc, item, build,
                   callback_result, pending_submit_time, computed_score, ret, item_max_points, build_vars, run_only, infolist, report_vars, reopened, undone>>

(***************************************************************************)
(* get_score: one action per branch of the input handling, together with   *)
(* what run_grading does with the value get_score returns.                 *)
(***************************************************************************)

\* The branch the input txt takes at the current prompt.
Branch(txt) == Dispatch(student_deductions[item], txt, last_graded_net_ids)

\* get_score "continue": the loop renders again from the stores sd.
Again(sd) ==
    /\ student_deductions' = sd
    /\ computed_score' = Render(sd, item, net_ids)
    /\ UNCHANGED <<last_graded_net_ids, idx, prev_idx, pc, item, build, callback_result,
                   pending_submit_time, ret, item_max_points, build_vars, run_only, infolist, report_vars, reopened, undone>>

\* get_score returns and run_grading returns False.
Return(sd) ==
    /\ student_deductions' = sd
    /\ Goto(Continue(sd, item + 1))
    /\ build' = TRUE
    /\ NoLocals
    /\ UNCHANGED <<ret, item_max_points, build_vars, run_only, infolist, report_vars, reopened>>

\* The empty line: get_score returns the computed score, run_grading records it.
PromptAccept ==
    /\ pc = "prompt"
    /\ \E txt \in PromptTexts : Branch(txt) = "accept"
    /\ Return([student_deductions EXCEPT
                  ![item] = RecordScore(@, net_ids, pending_submit_time)])

\* "0": when allowed_cmds holds it, get_score returns CLEAR_DEDUCTIONS, which
\* run_grading takes for a score and records; otherwise the clear branch
\* runs and the prompt loops.
PromptZero ==
    /\ pc = "prompt"
    /\ \E txt \in PromptTexts :
          /\ Branch(txt) \in {"0", "clear"}
          /\ IF Branch(txt) = "0"
             THEN Return([student_deductions EXCEPT
                             ![item] = RecordScore(@, net_ids, pending_submit_time)])
             ELSE Again([student_deductions EXCEPT
                            ![item] = clear_student_deductions(@, net_ids)])

\* A list of ids: each deduction is applied, the prompt loops.
PromptApply ==
    /\ pc = "prompt"
    /\ \E sd \in {[student_deductions EXCEPT ![item] = ApplyAll(@, net_ids, ValidIds(@, txt))] :
                    txt \in {t \in PromptTexts : Branch(t) = "apply"}} :
          Again(sd)

\* Anything else: "Invalid input. Try again."
PromptInvalid ==
    /\ pc = "prompt"
    /\ \E txt \in PromptTexts : Branch(txt) = "invalid"
    /\ Again(student_deductions)

\* create_deduction_type_interactive (-1 on an empty description or a
\* cancelled points prompt), and get_score's apply of the created type.
create_and_apply(s, g, description, entries, max_points) ==
    IF description = "" THEN s
    ELSE IF ReadPoints(entries, max_points).kind # "points" THEN s
    ELSE apply_deduction_to_student(
            add_deduction_type(s, description, ReadPoints(entries, max_points).points).store,
            g,
            add_deduction_type(s, description, ReadPoints(entries, max_points).points).ret
         ).store

\* "n": create_deduction_type_interactive, and the new type is applied to
\* the current group.
PromptNewDeduction ==
    /\ pc = "prompt"
    /\ \E txt \in PromptTexts : Branch(txt) = "n"
    /\ \E s \in {create_and_apply(student_deductions[item], net_ids, description, entries,
                                   item_max_points[item]) :
                    description \in DescriptionTexts, entries \in PointsTexts} :
          /\ \A id \in DOMAIN s.deduction_types : id <= MaxTypeId
          /\ Again([student_deductions EXCEPT ![item] = s])

\* The "d" and "v" dialogs on the stores: nothing happens when the item
\* selection is cancelled (i = NoItem).
DeleteDialog(sd, i, id_str) ==
    IF i = NoItem THEN sd
    ELSE [sd EXCEPT ![i] = delete_deduction_type_interactive(@, id_str)]

ChangeDialog(sd, i, id_str, entries) ==
    IF i = NoItem THEN sd
    ELSE [sd EXCEPT ![i] = change_deduction_value_interactive(@, id_str, entries,
                                                              item_max_points[i])]

\* "d": delete_deduction_type_interactive on the selected item's store.
PromptDeleteDeduction ==
    /\ pc = "prompt"
    /\ \E txt \in PromptTexts : Branch(txt) = "d"
    /\ \E sd \in {DeleteDialog(student_deductions,
                                 IF NumItems > 1 THEN SelectItem(sel) ELSE item, id_str) :
                     sel \in SelectTexts, id_str \in IdTexts} :
          Again(sd)

\* "v": change_deduction_value_interactive on the selected item's store.
PromptChangeValue ==
    /\ pc = "prompt"
    /\ \E txt \in PromptTexts : Branch(txt) = "v"
    /\ \E sd \in {ChangeDialog(student_deductions,
                                 IF NumItems > 1 THEN SelectItem(sel) ELSE item,
                                 id_str, entries) :
                     sel \in SelectTexts, id_str \in IdTexts, entries \in PointsTexts} :
          Again(sd)

\* A manage-grades dialog that deletes without looking at the confirmation.
ManageGradesUnconfirmed(sd, choice, confirm) ==
    IF choice \in AllGradedStudents(sd)
    THEN [stores |-> ClearInAllItems(sd, choice), deleted |-> TRUE]
    ELSE [stores |-> sd, deleted |-> FALSE]

\* _manage_grades_interactive: the operator picks a graded group (or none)
\* and answers the confirmation; "y" deletes the group's grade from all
\* items and returns True, anything else deletes nothing.
ManageGrades(sd, choice, confirm) ==
    IF choice \in AllGradedStudents(sd) /\ confirm = "y"
    THEN [stores |-> ClearInAllItems(sd, choice), deleted |-> TRUE]
    ELSE [stores |-> sd, deleted |-> FALSE]

\* "g": manage grades, then the prompt loops.
PromptManageGrades ==
    /\ pc = "prompt"
    /\ \E txt \in PromptTexts : Branch(txt) = "g"
    /\ \E sd \in {ManageGrades(student_deductions, choice, confirm).stores :
                     choice \in Groups, confirm \in ConfirmTexts} :
          Again(sd)

\* "s": get_score returns SKIP and run_grading returns False.
PromptSkip ==
    /\ pc = "prompt"
    /\ \E txt \in PromptTexts : Branch(txt) = "s"
    /\ Return(student_deductions)

\* A rerun that leaves the build flag set.
PromptRerunBuilding ==
    /\ pc = "prompt"
    /\ \E txt \in PromptTexts :
          /\ Branch(txt) = "r"
          /\ pc' = "callback"
          /\ build' = TRUE
          /\ NoLocals
          /\ UNCHANGED <<student_deductions, last_graded_net_ids, idx, prev_idx, item, ret, item_max_points, build_vars, run_only, infolist, report_vars, reopened, undone>>

\* "b" and "r": the callback is called again, with build and without.
PromptBuild ==
    /\ pc = "prompt"
    /\ \E txt \in PromptTexts :
          /\ Branch(txt) = "b"
          /\ pc' = "callback"
          /\ build' = TRUE
          /\ NoLocals
          /\ UNCHANGED <<student_deductions, last_graded_net_ids, idx, prev_idx, item, ret, item_max_points, build_vars, run_only, infolist, report_vars, reopened, undone>>

PromptRerun ==
    /\ pc = "prompt"
    /\ \E txt \in PromptTexts :
          /\ Branch(txt) = "r"
          /\ pc' = "callback"
          /\ build' = FALSE
          /\ NoLocals
          /\ UNCHANGED <<student_deductions, last_graded_net_ids, idx, prev_idx, item, ret, item_max_points, build_vars, run_only, infolist, report_vars, reopened, undone>>

\* An exit that records the score of the render before it ends the process.
PromptExitRecording ==
    /\ pc = "prompt"
    /\ pc' = "exit"
    /\ item' = NoItem
    /\ build' = TRUE
    /\ NoLocals
    /\ undone' = NoNetIds
    /\ student_deductions' =
          [student_deductions EXCEPT
              ![item] = RecordScore(@, net_ids, pending_submit_time)]
    /\ UNCHANGED <<last_graded_net_ids, idx, prev_idx, ret, item_max_points, build_vars, run_only, infolist, report_vars, reopened>>

\* "e", or a KeyboardInterrupt while get_score waits: sys.exit(0).
PromptExit ==
    /\ pc = "prompt"
    /\ \E txt \in PromptTexts \cup {<<"KeyboardInterrupt">>} :
          /\ Branch(txt) = "e" \/ txt = <<"KeyboardInterrupt">>
          /\ pc' = "exit"
          /\ item' = NoItem
          /\ build' = TRUE
          /\ NoLocals
          /\ undone' = NoNetIds
          /\ UNCHANGED <<student_deductions, last_graded_net_ids, idx, prev_idx, ret, item_max_points, build_vars, run_only, infolist, report_vars, reopened>>

\* run_grading, UNDO: the stores after the grades of the last graded group
\* and of the current group are cleared in every item.
UndoStores(sd, last, current) == ClearInAllItems(ClearInAllItems(sd, last), current)

\* "u": with a last graded group its grades and the current group's are
\* cleared in every item and run_grading returns True; without one
\* run_grading loops and calls the callback again.
PromptUndo ==
    /\ pc = "prompt"
    /\ \E txt \in PromptTexts :
          /\ Branch(txt) = "u"
          /\ IF last_graded_net_ids # NoNetIds
             THEN /\ student_deductions' =
                        UndoStores(student_deductions, last_graded_net_ids, net_ids)
                  /\ Goto(GoBack)
                  /\ build' = TRUE
                  /\ NoLocals
                  /\ UNCHANGED <<ret, item_max_points, build_vars, run_only, infolist, report_vars, reopened>>
             ELSE /\ pc' = "callback"
                  /\ build' = TRUE
                  /\ NoLocals
                  /\ UNCHANGED <<student_deductions, last_graded_net_ids, idx, prev_idx,
                                 item, ret, item_max_points, build_vars, run_only, infolist, report_vars, reopened, undone>>

(***************************************************************************)
(* display_completion_menu, and what _run_grading_sequential does with its *)
(* result.                                                                 *)
(***************************************************************************)

MenuStay(sd) ==
    /\ student_deductions' = sd
    /\ UNCHANGED <<last_graded_net_ids, idx, prev_idx, pc, item, build, callback_result,
                   pending_submit_time, computed_score, ret, item_max_points, build_vars, run_only, infolist, report_vars, reopened, undone>>

\* A completion menu that is shown again after a deletion.
MenuManageGradesStay ==
    /\ pc = "menu"
    /\ \E managed \in {ManageGrades(student_deductions, choice, confirm) :
                          choice \in Groups, confirm \in ConfirmTexts} :
          MenuStay(managed.stores)

\* "g": manage grades; a deletion returns True and the grading loop is run
\* again from the first row, with no last graded group.
MenuManageGrades ==
    /\ pc = "menu"
    /\ \E choice \in Groups, confirm \in ConfirmTexts :
          LET managed == ManageGrades(student_deductions, choice, confirm)
          IN  IF managed.deleted
              THEN /\ student_deductions' = managed.stores
                   /\ last_graded_net_ids' = NoNetIds
                   /\ idx' = 1
                   /\ prev_idx' = NoIdx
                   /\ pc' = "loop"
                   /\ undone' = NoNetIds
                   /\ reopened' = choice
                   /\ UNCHANGED <<item, build, callback_result, pending_submit_time,
                                  computed_score, ret, item_max_points, build_vars,
                                  run_only, infolist, report_vars>>
              ELSE MenuStay(student_deductions)

\* "d": delete a deduction type of the selected item.
MenuDeleteDeduction ==
    /\ pc = "menu"
    /\ \E sd \in {DeleteDialog(student_deductions, SelectItem(sel), id_str) :
                     sel \in SelectTexts, id_str \in IdTexts} :
          MenuStay(sd)

\* "v": change the value of a deduction type of the selected item.
MenuChangeValue ==
    /\ pc = "menu"
    /\ \E sd \in {ChangeDialog(student_deductions, SelectItem(sel), id_str, entries) :
                     sel \in SelectTexts, id_str \in IdTexts, entries \in PointsTexts} :
          MenuStay(sd)

\* "e": sys.exit(0).
MenuExit ==
    /\ pc = "menu"
    /\ pc' = "exit"
    /\ UNCHANGED <<student_deductions, last_graded_net_ids, idx, prev_idx, item, build,
                   callback_result, pending_submit_time, computed_score, ret, item_max_points, build_vars, run_only, infolist, report_vars, reopened, undone>>

\* Anything else: "Invalid option. Try again."
MenuInvalid ==
    /\ pc = "menu"
    /\ MenuStay(student_deductions)

\* The process has ended and run() is called in a new one: a new Grader,
\* whose items load their stores from the deduction files.
Resume ==
    /\ pc \in {"exit", "error"}
    /\ last_graded_net_ids' = NoNetIds
    /\ idx' = 1
    /\ prev_idx' = NoIdx
    /\ pc' = "loop"
    /\ item' = NoItem
    /\ build' = TRUE
    /\ NoLocals
    /\ undone' = NoNetIds
    /\ student_deductions' =
          [i \in Items |-> StudentDeductions(student_deductions[i].file)]
    /\ reopened' = NoNetIds
    /\ UNCHANGED <<ret, item_max_points, build_vars, run_only, infolist, report_vars>>

Next ==
    \/ LoopEnd
    \/ LoopAlreadyGraded
    \/ LoopAcquireFailed
    \/ LoopGrade
    \/ CallbackFailed
    \/ CallbackReturns
    \/ CallbackReturnsUnverified
    \/ ConfirmYes
    \/ ConfirmNo
    \/ ConfirmOther
    \/ PromptAccept
    \/ PromptZero
    \/ PromptApply
    \/ PromptInvalid
    \/ PromptNewDeduction
    \/ PromptDeleteDeduction
    \/ PromptChangeValue
    \/ PromptManageGrades
    \/ PromptSkip
    \/ PromptBuild
    \/ PromptRerun
    \/ PromptExit
    \/ PromptUndo
    \/ MenuManageGrades
    \/ MenuDeleteDeduction
    \/ MenuChangeValue
    \/ MenuExit
    \/ MenuInvalid
    \/ Resume

Spec == Init /\ [][Next]_vars

(***************************************************************************)
(* The session of a Grader whose last item was added without max_points    *)
(* (add_item_to_grade's default), the other items with MaxPoints.           *)
(***************************************************************************)

InitAnalysis ==
    /\ student_deductions = [i \in Items |-> EmptyStore]
    /\ last_graded_net_ids = NoNetIds
    /\ idx = 1
    /\ prev_idx = NoIdx
    /\ pc = "loop"
    /\ item = NoItem
    /\ build = TRUE
    /\ callback_result = NoResult
    /\ pending_submit_time = None
    /\ computed_score = 0
    /\ ret = NoRet
    /\ undone = NoNetIds
    /\ reopened = NoNetIds
    /\ item_max_points = [i \in Items |-> IF i = NumItems THEN NoMaxPoints ELSE MaxPoints]
    /\ NoBuild
    /\ NoReport

SpecAnalysis == InitAnalysis /\ [][Next]_vars

(***************************************************************************)
(* The build-only path: set_other_options, run, and _run_grading_parallel  *)
(* with its worker threads, for submissions that come from a Learning      *)
(* Suite zip file.                                                         *)
(***************************************************************************)

\* The largest parallel_workers the operator passes.
MaxWorkers == 2

\* The zip file is downloaded again at most once (version 1, then 2).
NumArchives == 2

\* The entries of version a of the zip file that match the members of row
\* r, in the order of the zip file, each with the name it is extracted to
\* and its date_time (the files of an inner zip are listed as they are
\* visited). The last row has submitted nothing in version 1; the first row
\* has submitted main.c twice.
ArchiveEntries(a, r) ==
    IF r = NumGroups
    THEN IF a = 1 THEN <<>> ELSE <<[name |-> "main.c", date_time |-> a]>>
    ELSE IF r = 1
    THEN <<[name |-> "main.c", date_time |-> a + 1], [name |-> "main.c", date_time |-> a]>>
    ELSE <<[name |-> "main.c", date_time |-> a], [name |-> "help.txt", date_time |-> 1]>>

\* An extraction in which the entry visited last overwrites.
RECURSIVE ExtractLast(_, _)
ExtractLast(entries, extracted_by_name) ==
    IF entries = <<>> THEN extracted_by_name
    ELSE ExtractLast(Tail(entries),
                     DictSet(extracted_by_name, Head(entries).name, Head(entries).date_time))

\* _get_student_code_learning_suite, the loop over the entries:
\* extracted_by_name; an entry is not extracted when a file of its name was
\* extracted from an entry that is not older.
RECURSIVE Extract(_, _)
Extract(entries, extracted_by_name) ==
    IF entries = <<>> THEN extracted_by_name
    ELSE IF /\ Head(entries).name \in DOMAIN extracted_by_name
            /\ Head(entries).date_time <= extracted_by_name[Head(entries).name]
    THEN Extract(Tail(entries), extracted_by_name)
    ELSE Extract(Tail(entries),
                 DictSet(extracted_by_name, Head(entries).name, Head(entries).date_time))

\* An acquisition that extracts whatever the directory holds.
extract_always(dir, entries) ==
    [dir |-> [exists |-> TRUE, files |-> Extract(entries, <<>>)],
     ret |-> Extract(entries, <<>>) # <<>>,
     log |-> IF Extract(entries, <<>>) # <<>> THEN "extracted" ELSE "No submission"]

\* _get_student_code_learning_suite: the directory afterwards, the
\* returned value, and what is printed to the output after "Extracting
\* submitted files for ...".
_get_student_code_learning_suite(dir, entries) ==
    IF dir.exists /\ dir.files # <<>>
    THEN [dir |-> dir, ret |-> TRUE, log |-> "Files already extracted previously."]
    ELSE [dir |-> [exists |-> TRUE, files |-> Extract(entries, <<>>)],
          ret |-> Extract(entries, <<>>) # <<>>,
          log |-> IF Extract(entries, <<>>) # <<>> THEN "extracted" ELSE "No submission"]

\* A _create_work_path that removes the tree on every run.
remove_always(dirs, newer) == [r \in Rows |-> NoDir]

\* _create_work_path: the directories below work_path; the whole tree is
\* removed when the zip file is newer than the work_path directory.
_create_work_path(dirs, newer) ==
    IF newer THEN [r \in Rows |-> NoDir] ELSE dirs

\* A worker that scores the list its callback returned.
ScoreResult(sd, i, g, result) ==
    IF result.kind = "list"
    THEN [sd EXCEPT ![i] = RecordScore(AutoApply(@, g, result.list).store, g, None)]
    ELSE sd

\* _run_build_steps: item.fcn(...) is called as a statement; what it
\* returns is dropped and no store is touched.
DiscardResult(sd, i, g, result) == sd

\* The variables of the sequential session, which this path leaves alone.
session_vars == <<last_graded_net_ids, idx, prev_idx, item, build, callback_result,
                  pending_submit_time, computed_score, ret, undone, item_max_points>>

\* The deduction files found at the start: the first group is graded for
\* some of the items (with a score accepted without deductions).
BuildInitStores ==
    {[i \in Items |-> IF i \in I
                      THEN RecordScore(EmptyStore, NetIds(1), None)
                      ELSE EmptyStore] : I \in SUBSET Items}

InitBuild ==
    /\ student_deductions \in BuildInitStores
    /\ last_graded_net_ids = NoNetIds
    /\ idx = 1
    /\ prev_idx = NoIdx
    /\ pc = "configure"
    /\ item = NoItem
    /\ build = TRUE
    /\ callback_result = NoResult
    /\ pending_submit_time = None
    /\ computed_score = 0
    /\ ret = NoRet
    /\ undone = NoNetIds
    /\ reopened = NoNetIds
    /\ item_max_points = [i \in Items |-> MaxPoints]
    /\ NoBuild
    /\ NoReport

\* set_other_options(build_only=..., parallel_workers=...): error() ends the
\* process when parallel_workers is given without build_only.
set_other_options ==
    /\ pc = "configure"
    /\ \E bo \in BOOLEAN, pw \in {NoWorkers} \cup (1 .. MaxWorkers) :
          /\ build_only' = bo
          /\ parallel_workers' = pw
          /\ pc' = IF pw # NoWorkers /\ ~bo THEN "exit" ELSE "run"
    /\ UNCHANGED <<student_deductions, session_vars, run_only, infolist, report_vars, reopened, futures, work_path, archive,
                   zip_newer, success_count, fail_count, skip_count>>

\* run: _create_work_path, then _run_grading_parallel, which submits one
\* task per row, or the sequential loop (not followed here).
run ==
    /\ pc = "run"
    /\ work_path' = _create_work_path(work_path, zip_newer)
    /\ zip_newer' = FALSE
    /\ IF parallel_workers # NoWorkers
       THEN /\ pc' = "parallel"
            /\ futures' = [r \in Rows |-> [NotSubmitted EXCEPT !.stage = "queued"]]
       ELSE /\ pc' = "sequential"
            /\ UNCHANGED futures
    /\ UNCHANGED <<student_deductions, session_vars, run_only, infolist, report_vars, reopened, build_only, parallel_workers,
                   archive, success_count, fail_count, skip_count>>

\* The tasks a thread of the pool is working on.
Running == {r \in Rows : futures[r].stage \in {"acquire", "prep", "callback", "report"}}

\* A thread of the pool takes the task submitted first:
\* _process_single_student_build up to the check whether the group needs a
\* grade for some item.
WorkerStart(r) ==
    /\ pc = "parallel"
    /\ futures[r].stage = "queued"
    /\ \A q \in Rows : q < r => futures[q].stage # "queued"
    /\ Cardinality(Running) < parallel_workers
    /\ futures' = [futures EXCEPT ![r] =
          IF \A i \in Items : ~NeedsGrade(student_deductions[i], NetIds(r))
          THEN [stage |-> "report", item |-> NoItem,
                      success |-> "None", log |-> futures[r].log]
          ELSE [stage |-> "acquire", item |-> NoItem,
                      success |-> "None", log |-> futures[r].log]]
    /\ UNCHANGED <<student_deductions, pc, session_vars, run_only, infolist, report_vars, reopened, build_only, parallel_workers,
                   work_path, archive, zip_newer, success_count, fail_count, skip_count>>

\* _run_build_steps: _get_student_code. Creating the group's directory
\* modifies the work_path directory.
WorkerAcquire(r) ==
    /\ pc = "parallel"
    /\ futures[r].stage = "acquire"
    /\ LET got == _get_student_code_learning_suite(work_path[r],
                                                    ArchiveEntries(archive, r))
       IN  /\ work_path' = [work_path EXCEPT ![r] = got.dir]
           /\ zip_newer' = (zip_newer /\ work_path[r].exists)
           /\ futures' = [futures EXCEPT ![r] =
                 IF got.ret
                 THEN [stage |-> "prep", item |-> NoItem,
                       success |-> "None", log |-> got.log]
                 ELSE [stage |-> "report", item |-> NoItem,
                       success |-> "False", log |-> got.log]]
    /\ UNCHANGED <<student_deductions, pc, session_vars, run_only, infolist, report_vars, reopened, build_only, parallel_workers,
                   archive, success_count, fail_count, skip_count>>

\* _run_build_steps: prep_fcn (when there is one) returns, or raises.
WorkerPrep(r) ==
    /\ pc = "parallel"
    /\ futures[r].stage = "prep"
    /\ \E raised \in BOOLEAN :
          futures' = [futures EXCEPT ![r] =
             IF raised
             THEN [stage |-> "report", item |-> NoItem,
                      success |-> "False", log |-> futures[r].log]
             ELSE [stage |-> "callback", item |-> 1,
                      success |-> "None", log |-> futures[r].log]]
    /\ UNCHANGED <<student_deductions, pc, session_vars, run_only, infolist, report_vars, reopened, build_only, parallel_workers,
                   work_path, archive, zip_newer, success_count, fail_count, skip_count>>

\* _run_build_steps: the callback of the next item, with build=True and
\* run=False; an exception ends the task, a returned value is dropped.
WorkerCallback(r) ==
    /\ pc = "parallel"
    /\ futures[r].stage = "callback"
    /\ \E result \in {o \in CallbackOutcomes : o.kind # "KeyboardInterrupt"} :
          /\ futures' = [futures EXCEPT ![r] =
                IF result.kind = "CallbackFailed"
                THEN [stage |-> "report", item |-> NoItem,
                      success |-> "False", log |-> futures[r].log]
                ELSE IF futures[r].item < NumItems
                THEN [stage |-> "callback", item |-> futures[r].item + 1,
                      success |-> "None", log |-> futures[r].log]
                ELSE [stage |-> "report", item |-> NoItem,
                      success |-> "True", log |-> futures[r].log]]
          /\ student_deductions' =
                DiscardResult(student_deductions, futures[r].item, NetIds(r), result)
    /\ UNCHANGED <<pc, session_vars, run_only, infolist, report_vars, reopened, build_only, parallel_workers, work_path, archive,
                   zip_newer, success_count, fail_count, skip_count>>

\* process_and_report: the counters, under print_lock.
WorkerReport(r) ==
    /\ pc = "parallel"
    /\ futures[r].stage = "report"
    /\ futures' = [futures EXCEPT ![r].stage = "done"]
    /\ skip_count' = skip_count + (IF futures[r].success = "None" THEN 1 ELSE 0)
    /\ success_count' = success_count + (IF futures[r].success = "True" THEN 1 ELSE 0)
    /\ fail_count' = fail_count + (IF futures[r].success = "False" THEN 1 ELSE 0)
    /\ UNCHANGED <<student_deductions, pc, session_vars, run_only, infolist, report_vars, reopened, build_only, parallel_workers,
                   work_path, archive, zip_newer>>

\* as_completed has yielded every future: "Completed: ...", run returns.
ParallelDone ==
    /\ pc = "parallel"
    /\ \A r \in Rows : futures[r].stage = "done"
    /\ pc' = "done"
    /\ UNCHANGED <<student_deductions, session_vars, build_vars, run_only, infolist, report_vars, reopened>>

\* The script is started again: a new Grader, the files and directories
\* are what the last process left.
Restart ==
    /\ pc \in {"done", "exit", "sequential"}
    /\ pc' = "configure"
    /\ build_only' = FALSE
    /\ parallel_workers' = NoWorkers
    /\ futures' = [r \in Rows |-> NotSubmitted]
    /\ success_count' = 0
    /\ fail_count' = 0
    /\ skip_count' = 0
    /\ student_deductions' =
          [i \in Items |-> StudentDeductions(student_deductions[i].file)]
    /\ UNCHANGED <<session_vars, run_only, infolist, report_vars, reopened, work_path, archive, zip_newer>>

\* The instructor downloads the submissions again: the zip file is replaced
\* by a newer one.
ArchiveReplaced ==
    /\ archive < NumArchives
    /\ archive' = archive + 1
    /\ zip_newer' = TRUE
    /\ UNCHANGED <<student_deductions, pc, session_vars, run_only, infolist, report_vars, reopened, build_only, parallel_workers,
                   futures, work_path, success_count, fail_count, skip_count>>

NextBuild ==
    \/ set_other_options
    \/ run
    \/ \E r \in Rows : WorkerStart(r)
    \/ \E r \in Rows : WorkerAcquire(r)
    \/ \E r \in Rows : WorkerPrep(r)
    \/ \E r \in Rows : WorkerCallback(r)
    \/ \E r \in Rows : WorkerReport(r)
    \/ ParallelDone
    \/ Restart
    \/ ArchiveReplaced

SpecBuild == InitBuild /\ [][NextBuild]_vars

(***************************************************************************)
(* The sequential session under set_other_options(build_only=...,          *)
(* run_only=...), resumed on the files of BuildInitStores, with an operator *)
(* who accepts, applies deductions, skips, rebuilds and reruns.             *)
(***************************************************************************)

InitFlags ==
    /\ student_deductions \in BuildInitStores
    /\ last_graded_net_ids = NoNetIds
    /\ idx = 1
    /\ prev_idx = NoIdx
    /\ pc = "loop"
    /\ item = NoItem
    /\ build = TRUE
    /\ callback_result = NoResult
    /\ pending_submit_time = None
    /\ computed_score = 0
    /\ ret = NoRet
    /\ undone = NoNetIds
    /\ reopened = NoNetIds
    /\ item_max_points = [i \in Items |-> MaxPoints]
    /\ build_only \in BOOLEAN
    /\ run_only \in BOOLEAN
    /\ parallel_workers = NoWorkers
    /\ futures = [r \in Rows |-> NotSubmitted]
    /\ work_path = [r \in Rows |-> NoDir]
    /\ archive = 1
    /\ zip_newer = FALSE
    /\ success_count = 0
    /\ fail_count = 0
    /\ skip_count = 0
    /\ infolist = <<>>
    /\ NoReport

\* run_grading with build_only: the callback returns, is interrupted or
\* raises CallbackFailed, the flag is reset and the loop is left before any
\* verification or prompt; the loop over the rows goes to the next item that
\* needs a grade and, after the last, to the next row without recording the
\* group as the last graded one.
CallbackBuildOnly ==
    /\ pc = "callback"
    /\ build_only
    /\ LET need == {j \in Items : j > item /\ NeedsGrade(student_deductions[j], net_ids)}
       IN  IF need # {}
           THEN /\ item' = Min(need)
                /\ UNCHANGED <<pc, idx, prev_idx>>
           ELSE /\ pc' = "loop"
                /\ item' = NoItem
                /\ idx' = idx + 1
                /\ prev_idx' = idx
    /\ build' = TRUE
    /\ NoLocals
    /\ UNCHANGED <<student_deductions, last_graded_net_ids, undone, ret, item_max_points,
                   build_vars, run_only, infolist, report_vars, reopened>>

\* Every row was visited with build_only: no completion menu.
LoopEndBuildOnly ==
    /\ pc = "loop"
    /\ idx > NumGroups
    /\ build_only
    /\ pc' = "done"
    /\ UNCHANGED <<student_deductions, last_graded_net_ids, idx, prev_idx, item, build,
                   callback_result, pending_submit_time, computed_score, ret, undone,
                   item_max_points, build_vars, run_only, infolist, report_vars, reopened>>

NextFlags ==
    \/ LoopEnd
    \/ LoopEndBuildOnly
    \/ LoopAlreadyGraded
    \/ LoopAcquireFailed
    \/ LoopGrade
    \/ CallbackFailed
    \/ CallbackReturns
    \/ CallbackReturnsUnverified
    \/ CallbackBuildOnly
    \/ ConfirmYes
    \/ ConfirmNo
    \/ ConfirmOther
    \/ PromptAccept
    \/ PromptApply
    \/ PromptSkip
    \/ PromptBuild
    \/ PromptRerun

SpecFlags == InitFlags /\ [][NextFlags]_vars

(***************************************************************************)
(* The session with callbacks that score by themselves, some of whose      *)
(* lists hold a pair with negative points, and an operator who accepts or  *)
(* skips at the prompt and starts the script again after an error.         *)
(***************************************************************************)

\* Lists with a negative pair, alone and after a valid pair.
NegativeLists ==
    {<<[message |-> "Late", points |-> -1]>>,
     <<[message |-> "Missing header", points |-> 12],
       [message |-> "Late", points |-> -1]>>}

\* The callback returns a list with a negative pair and the verification
\* finds nothing: the pairs are processed in order until the ValueError.
CallbackReturnsNegative ==
    /\ pc = "callback"
    /\ ~build_only
    /\ CommitDateFile(idx) # "malformed"
    /\ \E l \in NegativeLists :
          /\ WithinCap(student_deductions[item], l)
          /\ ProcessResult([kind |-> "list", list |-> l], CommitDate(idx))
    /\ UNCHANGED <<ret, item_max_points, build_vars, run_only, infolist, report_vars, reopened>>

NextAuto ==
    \/ LoopEnd
    \/ LoopAlreadyGraded
    \/ LoopAcquireFailed
    \/ LoopGrade
    \/ CallbackFailed
    \/ CallbackReturns
    \/ CallbackReturnsNegative
    \/ CallbackReturnsUnverified
    \/ ConfirmYes
    \/ ConfirmNo
    \/ ConfirmOther
    \/ PromptAccept
    \/ PromptSkip
    \/ MenuExit
    \/ Resume

SpecAuto == Init /\ [][NextAuto]_vars

(***************************************************************************)
(* One pass of the loop over the rows, up to the completion step, with an  *)
(* operator who accepts, applies deductions, skips, rebuilds, reruns and   *)
(* undoes, and never exits. Every call returns: the loop takes its next    *)
(* step, a callback that is called returns or raises, the question after a *)
(* failed verification is answered with yes or no, and get_score returns.  *)
(***************************************************************************)

\* The start of a run over deduction files that a run before may have
\* written.
InitPass ==
    /\ student_deductions \in BuildInitStores
    /\ last_graded_net_ids = NoNetIds
    /\ idx = 1
    /\ prev_idx = NoIdx
    /\ pc = "loop"
    /\ item = NoItem
    /\ build = TRUE
    /\ callback_result = NoResult
    /\ pending_submit_time = None
    /\ computed_score = 0
    /\ ret = NoRet
    /\ undone = NoNetIds
    /\ reopened = NoNetIds
    /\ item_max_points = [i \in Items |-> MaxPoints]
    /\ NoBuild
    /\ NoReport

NextPass ==
    \/ LoopEnd
    \/ LoopAlreadyGraded
    \/ LoopAcquireFailed
    \/ LoopGrade
    \/ CallbackFailed
    \/ CallbackReturns
    \/ CallbackReturnsUnverified
    \/ ConfirmYes
    \/ ConfirmNo
    \/ ConfirmOther
    \/ PromptAccept
    \/ PromptApply
    \/ PromptInvalid
    \/ PromptSkip
    \/ PromptBuild
    \/ PromptRerun
    \/ PromptUndo

PassFairness ==
    /\ WF_vars(LoopEnd \/ LoopAlreadyGraded \/ LoopAcquireFailed \/ LoopGrade)
    /\ WF_vars(CallbackFailed \/ CallbackReturns \/ CallbackReturnsUnverified)
    /\ WF_vars(ConfirmYes \/ ConfirmNo)
    /\ WF_vars(PromptAccept \/ PromptSkip \/ PromptBuild \/ PromptRerun \/ PromptUndo)

SpecPass == InitPass /\ [][NextPass]_vars /\ PassFairness

(***************************************************************************)
(* Acquisition from a zip file on its own: _get_student_code for the first *)
(* row, whose directory does not exist yet, with any short list of         *)
(* matching entries in the zip file.                                       *)
(***************************************************************************)

\* The names the entries of a group are extracted to.
ExtractNames == {"main.c", "help.txt"}

\* The date_time values of the entries.
MaxDateTime == 3

\* The largest number of entries that match one group.
MaxEntries == 3

ZipInfos == [name : ExtractNames, date_time : 1 .. MaxDateTime]

\* top_zip.infolist(), restricted to the entries that match the group.
InfoLists == UNION {[1 .. n -> ZipInfos] : n \in 0 .. MaxEntries}

\* count_by_filename: how many entries are extracted to each name.
count_by_filename(entries) ==
    [k \in {entries[j].name : j \in 1 .. Len(entries)} |->
        Cardinality({j \in 1 .. Len(entries) : entries[j].name = k})]

\* "Print what was extracted": the names printed with "(n versions
\* submitted, using last modified.)".
VersionsWarned(entries) ==
    {k \in DOMAIN Extract(entries, <<>>) : count_by_filename(entries)[k] > 1}

InitExtract ==
    /\ student_deductions = [i \in Items |-> EmptyStore]
    /\ last_graded_net_ids = NoNetIds
    /\ idx = 1
    /\ prev_idx = NoIdx
    /\ pc = "extract"
    /\ item = NoItem
    /\ build = TRUE
    /\ callback_result = NoResult
    /\ pending_submit_time = None
    /\ computed_score = 0
    /\ ret = NoRet
    /\ undone = NoNetIds
    /\ reopened = NoNetIds
    /\ item_max_points = [i \in Items |-> MaxPoints]
    /\ build_only = FALSE
    /\ run_only = FALSE
    /\ parallel_workers = NoWorkers
    /\ futures = [r \in Rows |-> NotSubmitted]
    /\ work_path = [r \in Rows |-> NoDir]
    /\ archive = 1
    /\ zip_newer = FALSE
    /\ success_count = 0
    /\ fail_count = 0
    /\ skip_count = 0
    /\ infolist \in InfoLists
    /\ NoReport

\* _run_grading_sequential: success = self._get_student_code(row,
\* student_work_path); the loop goes on to the callbacks or to the next row.
_get_student_code ==
    /\ pc = "extract"
    /\ LET got == _get_student_code_learning_suite(work_path[idx], infolist)
       IN  /\ work_path' = [work_path EXCEPT ![idx] = got.dir]
           /\ pc' = IF got.ret THEN "extracted" ELSE "next row"
    /\ UNCHANGED <<student_deductions, session_vars, build_only, parallel_workers,
                   futures, archive, zip_newer, success_count, fail_count, skip_count,
                   run_only, infolist, report_vars, reopened>>

NextExtract == _get_student_code

SpecExtract == InitExtract /\ [][NextExtract]_vars

(***************************************************************************)
(* The grades report (feedback.py): _calculate_student_score for the       *)
(* students of a class whose first two students form a group, over the     *)
(* deduction files a grading session has left.                             *)
(***************************************************************************)

\* The net_ids of the class list.
NumStudents == 3

\* The keys of the groups in the deduction files.
ReportGroups == {<<1, 2>>, <<3>>}

\* datetime.fromisoformat of the submit times in the files, and the
\* datetimes of the due date and of the exceptions, as points on one axis.
fromisoformat ==
    [t \in {"2025-01-01T23:59:59", "2025-01-02T08:00:00", "2025-01-03T08:00:00"} |->
        CASE t = "2025-01-01T23:59:59" -> 2
          [] t = "2025-01-02T08:00:00" -> 3
          [] t = "2025-01-03T08:00:00" -> 4]

\* The due date of the assignment, when one is given: 2025-01-01 23:59:59.
DueDate == 2

\* The dates of the exceptions: one before the due date, one after it
\* (2025-01-02 08:00:00).
ExceptionDates == {1, 3}

\* _get_student_key_and_submit_info: the key under which a store holds the
\* student, NoNetIds for None. At most one key of a file holds a net_id.
StudentKey(s, net_id) ==
    LET keys == DOMAIN s.deductions_by_students \cup DOMAIN s.submit_time_by_students
        with == {k \in keys : net_id \in Range(k)}
    IN  IF <<net_id>> \in keys THEN <<net_id>>
        ELSE IF with # {} THEN CHOOSE k \in with : TRUE
        ELSE NoNetIds

\* An effective due date that takes the exception of the last member.
RECURSIVE LastExceptionDate(_, _, _)
LastExceptionDate(due, student_key, exceptions) ==
    IF student_key = <<>> THEN due
    ELSE LastExceptionDate(
            IF Head(student_key) \in DOMAIN exceptions
            THEN exceptions[Head(student_key)]
            ELSE due,
            Tail(student_key), exceptions)

\* _get_student_key_and_submit_info: "effective_due_date = max(
\* effective_due_date, due_date_exceptions[member_net_id])" over the members.
RECURSIVE EffectiveDueDate(_, _, _)
EffectiveDueDate(due, student_key, exceptions) ==
    IF student_key = <<>> THEN due
    ELSE EffectiveDueDate(
            IF /\ Head(student_key) \in DOMAIN exceptions
               /\ exceptions[Head(student_key)] > due
            THEN exceptions[Head(student_key)]
            ELSE due,
            Tail(student_key), exceptions)

\* _get_student_key_and_submit_info, the loop over the items from item i
\* on: the effective due date of the last item that holds the student and
\* the latest submit time of all of them.
RECURSIVE SubmitInfoLoop(_, _, _, _, _, _)
SubmitInfoLoop(i, acc, net_id, sd, due, exceptions) ==
    IF i > NumItems THEN acc
    ELSE LET key == StudentKey(sd[i], net_id)
             str == get_submit_time(sd[i], key)
             eff == IF due # NoDate THEN EffectiveDueDate(due, key, exceptions)
                    ELSE acc.effective_due_date
             latest == IF str # None /\ str \in DOMAIN fromisoformat
                          /\ (acc.latest_submit_time = NoDate
                                \/ fromisoformat[str] > acc.latest_submit_time)
                       THEN fromisoformat[str]
                       ELSE acc.latest_submit_time
         IN  IF key = NoNetIds
             THEN SubmitInfoLoop(i + 1, acc, net_id, sd, due, exceptions)
             ELSE SubmitInfoLoop(i + 1,
                     [student_key |-> key, effective_due_date |-> eff,
                      latest_submit_time |-> latest],
                     net_id, sd, due, exceptions)

\* _get_student_key_and_submit_info: latest_submit_time is None when it is
\* not after the effective due date.
_get_student_key_and_submit_info(net_id, sd, due, exceptions) ==
    LET r == SubmitInfoLoop(1, [student_key |-> NoNetIds, effective_due_date |-> due,
                                latest_submit_time |-> NoDate],
                            net_id, sd, due, exceptions)
    IN  IF /\ r.latest_submit_time # NoDate
           /\ r.effective_due_date # NoDate
           /\ r.latest_submit_time <= r.effective_due_date
        THEN [r EXCEPT !.latest_submit_time = NoDate]
        ELSE r

\* The late penalty callback of the grading script: one point for every
\* day after the due date.
late_penalty_callback(due_datetime, submitted_datetime, max_score, actual_score) ==
    actual_score - (submitted_datetime - due_datetime)

\* _calculate_student_score, the loop over the items from item i on: an
\* item counts when the student's group is graded for it.
RECURSIVE ItemScores(_, _, _)
ItemScores(i, net_id, sd) ==
    IF i > NumItems THEN 0
    ELSE LET with == {k \in DOMAIN sd[i].deductions_by_students : net_id \in Range(k)}
             key == IF <<net_id>> \in with THEN <<net_id>>
                    ELSE IF with # {} THEN CHOOSE k \in with : TRUE
                    ELSE NoNetIds
         IN  (IF key # NoNetIds
              THEN ComputedScore(item_max_points[i], total_deductions(sd[i], key))
              ELSE 0)
             + ItemScores(i + 1, net_id, sd)

\* _calculate_student_score; has_callback tells whether a late penalty
\* callback is passed.
_calculate_student_score(net_id, sd, has_callback, due, exceptions) ==
    LET info == _get_student_key_and_submit_info(net_id, sd, due, exceptions)
        score == ItemScores(1, net_id, sd)
        total_possible == NumItems * MaxPoints
        applies == /\ info.latest_submit_time # NoDate
                   /\ has_callback
                   /\ info.effective_due_date # NoDate
        penalized == late_penalty_callback(info.effective_due_date,
                                           info.latest_submit_time, total_possible, score)
    IN  [net_id |-> net_id,
         score |-> IF applies THEN (IF penalized > 0 THEN penalized ELSE 0) ELSE score,
         total_possible |-> total_possible,
         effective_due_date |-> info.effective_due_date,
         submitted_datetime |-> info.latest_submit_time,
         penalized |-> applies]

\* What a session has left about a group in a file: nothing, or a
\* recorded score with or without a submit time.
ReportRecords == {"ungraded", None} \cup DOMAIN fromisoformat

ReportRecord(s, g, rec) ==
    IF rec = "ungraded" THEN s ELSE RecordScore(s, g, rec)

InitReport ==
    /\ student_deductions \in
          {[i \in Items |-> ReportRecord(ReportRecord(EmptyStore, <<1, 2>>, a[i]),
                                         <<3>>, b[i])] :
              a \in [Items -> ReportRecords], b \in [Items -> ReportRecords]}
    /\ last_graded_net_ids = NoNetIds
    /\ idx = 1
    /\ prev_idx = NoIdx
    /\ pc = "report"
    /\ item = NoItem
    /\ build = TRUE
    /\ callback_result = NoResult
    /\ pending_submit_time = None
    /\ computed_score = 0
    /\ ret = NoRet
    /\ undone = NoNetIds
    /\ reopened = NoNetIds
    /\ item_max_points = [i \in Items |-> MaxPoints]
    /\ NoBuild
    /\ due_date \in {NoDate, DueDate}
    /\ due_date_exceptions \in
          UNION {[S -> ExceptionDates] : S \in SUBSET (1 .. NumStudents)}
    /\ feedback = NoFeedback

\* _generate_student_feedback, the loop over the items from item i on: the
\* points deducted, which for an item the student's group is not graded for
\* are all the points of the item ("Not graded").
RECURSIVE PointsDeducted(_, _, _)
PointsDeducted(i, net_id, sd) ==
    IF i > NumItems THEN 0
    ELSE LET with == {k \in DOMAIN sd[i].deductions_by_students : net_id \in Range(k)}
             key == IF <<net_id>> \in with THEN <<net_id>>
                    ELSE IF with # {} THEN CHOOSE k \in with : TRUE
                    ELSE NoNetIds
         IN  (IF key # NoNetIds
              THEN total_deductions(sd[i], key)
              ELSE item_max_points[i])
             + PointsDeducted(i + 1, net_id, sd)

\* _generate_student_feedback: the number written after "TOTAL SCORE:".
_generate_student_feedback(net_id, sd, has_callback, due, exceptions) ==
    LET info == _get_student_key_and_submit_info(net_id, sd, due, exceptions)
        total_points_possible == NumItems * MaxPoints
        left == total_points_possible - PointsDeducted(1, net_id, sd)
        score_before_late == IF left > 0 THEN left ELSE 0
        penalized == late_penalty_callback(info.effective_due_date,
                                           info.latest_submit_time,
                                           total_points_possible, score_before_late)
    IN  IF /\ info.latest_submit_time # NoDate
           /\ has_callback
           /\ info.effective_due_date # NoDate
        THEN (IF penalized > 0 THEN penalized ELSE 0)
        ELSE score_before_late

\* assemble_grades: the score of one student of the class list in the CSV
\* file, and the total of the student's feedback file.
assemble_grades ==
    /\ pc = "report"
    /\ \E net_id \in 1 .. NumStudents, has_callback \in BOOLEAN :
          LET csv == _calculate_student_score(net_id, student_deductions, has_callback,
                                              due_date, due_date_exceptions)
          IN  feedback' =
                 [net_id |-> csv.net_id,
                  score |-> csv.score,
                  total_possible |-> csv.total_possible,
                  effective_due_date |-> csv.effective_due_date,
                  submitted_datetime |-> csv.submitted_datetime,
                  penalized |-> csv.penalized,
                  text_score |-> _generate_student_feedback(
                                    net_id, student_deductions, has_callback,
                                    due_date, due_date_exceptions)]
    /\ UNCHANGED <<student_deductions, pc, session_vars, build_vars, run_only, infolist,
                   due_date, due_date_exceptions, reopened>>

NextReport == assemble_grades

SpecReport == InitReport /\ [][NextReport]_vars

(***************************************************************************)
(* The grades report over files in which the groups have deductions: an    *)
(* item's store holds two types, one above the item's points, and a group  *)
(* is ungraded for the item or graded with any list of the types, on time  *)
(* or late.                                                                *)
(***************************************************************************)

\* The store of an item after its types were created.
TypedStore ==
    add_deduction_type(
        add_deduction_type(EmptyStore, "Missing header", 12).store, "Style", 3).store

\* The lists a group is graded with.
FeedbackLists == {<<>>, <<"1">>, <<"2">>, <<"1", "2">>}

FeedbackTimes == {None, "2025-01-03T08:00:00"}

\* What grading has left about a group in a file.
FeedbackRecords == {<<"ungraded">>} \cup (FeedbackLists \X FeedbackTimes)

FeedbackRecord(s, g, rec) ==
    IF rec = <<"ungraded">> THEN s
    ELSE RecordScore(ApplyAll(s, g, rec[1]), g, rec[2])

InitFeedback ==
    /\ student_deductions \in
          {[i \in Items |-> FeedbackRecord(FeedbackRecord(TypedStore, <<1, 2>>, a[i]),
                                           <<3>>, b[i])] :
              a \in [Items -> FeedbackRecords], b \in [Items -> FeedbackRecords]}
    /\ last_graded_net_ids = NoNetIds
    /\ idx = 1
    /\ prev_idx = NoIdx
    /\ pc = "report"
    /\ item = NoItem
    /\ build = TRUE
    /\ callback_result = NoResult
    /\ pending_submit_time = None
    /\ computed_score = 0
    /\ ret = NoRet
    /\ undone = NoNetIds
    /\ reopened = NoNetIds
    /\ item_max_points = [i \in Items |-> MaxPoints]
    /\ NoBuild
    /\ due_date = DueDate
    /\ due_date_exceptions = <<>>
    /\ feedback = NoFeedback

SpecFeedback == InitFeedback /\ [][NextReport]_vars

(***************************************************************************)
(* The store on its own: the public methods of one StudentDeductions       *)
(* object (the store of item 1), called in any order by a client.          *)
(***************************************************************************)

\* Messages and points a client passes to the store.
ApiMessages == {"Missing header", "Late"}

ApiPoints == {-1, 3}

\* The new points a client passes to change_deduction_value, which takes
\* any number.
ApiNewPoints == {-2, 3}

\* Ids a client passes: those the store may hold, 0 and one beyond.
ApiIds == 0 .. MaxApiTypeId + 1

ApiStore == student_deductions[1]

\* The object after a call, and what the call returned.
ApiCall(op, s, ok, id, g) ==
    /\ pc = "api"
    /\ student_deductions' = [student_deductions EXCEPT ![1] = s]
    /\ ret' = [op |-> op, ok |-> ok, id |-> id, net_ids |-> g]
    /\ UNCHANGED <<last_graded_net_ids, idx, prev_idx, pc, item, build, callback_result,
                   pending_submit_time, computed_score, undone, item_max_points,
                   build_vars, run_only, infolist, report_vars, reopened>>

InitStore ==
    /\ student_deductions = [i \in Items |-> EmptyStore]
    /\ last_graded_net_ids = NoNetIds
    /\ idx = 1
    /\ prev_idx = NoIdx
    /\ pc = "api"
    /\ item = NoItem
    /\ build = TRUE
    /\ callback_result = NoResult
    /\ pending_submit_time = None
    /\ computed_score = 0
    /\ ret = NoRet
    /\ undone = NoNetIds
    /\ reopened = NoNetIds
    /\ item_max_points = [i \in Items |-> MaxPoints]
    /\ NoBuild
    /\ NoReport

\* add_deduction_type(message, points); ok is FALSE when ValueError is raised.
ApiAdd ==
    /\ pc = "api"
    /\ \E message \in ApiMessages, points \in ApiPoints :
        LET r == add_deduction_type(ApiStore, message, points)
        IN  /\ \A id \in DOMAIN r.store.deduction_types : id <= MaxApiTypeId
            /\ ApiCall("add", r.store, ~r.raised, IF r.raised THEN 0 ELSE r.ret, NoNetIds)

\* find_or_create_deduction_type(message, points).
ApiFindOrCreate ==
    /\ pc = "api"
    /\ \E message \in ApiMessages, points \in ApiPoints :
        LET r == find_or_create_deduction_type(ApiStore, message, points)
        IN  /\ \A id \in DOMAIN r.store.deduction_types : id <= MaxApiTypeId
            /\ ApiCall("find_or_create", r.store, ~r.raised, IF r.raised THEN 0 ELSE r.ret,
                    NoNetIds)

\* delete_deduction_type(id).
ApiDelete ==
    /\ pc = "api"
    /\ \E id \in ApiIds :
        LET r == delete_deduction_type(ApiStore, id)
        IN  ApiCall("delete", r.store, r.ret, id, NoNetIds)

\* change_deduction_value(id, new_points).
ApiChangeValue ==
    /\ pc = "api"
    /\ \E id \in ApiIds, new_points \in ApiNewPoints :
        LET r == change_deduction_value(ApiStore, id, new_points)
        IN  ApiCall("change", r.store, r.ret, id, NoNetIds)

\* apply_deduction_to_student(net_ids, id).
ApiApply ==
    /\ pc = "api"
    /\ \E g \in Groups, id \in ApiIds :
        LET r == apply_deduction_to_student(ApiStore, g, id)
        IN  ApiCall("apply", r.store, r.ret, id, g)

\* clear_student_deductions(net_ids).
ApiClear ==
    /\ pc = "api"
    /\ \E g \in Groups :
        ApiCall("clear", clear_student_deductions(ApiStore, g), TRUE, 0, g)

\* ensure_student_in_file(net_ids).
ApiEnsure ==
    /\ pc = "api"
    /\ \E g \in Groups :
        ApiCall("ensure", ensure_student_in_file(ApiStore, g), TRUE, 0, g)

NextStore ==
    \/ ApiAdd
    \/ ApiFindOrCreate
    \/ ApiDelete
    \/ ApiChangeValue
    \/ ApiApply
    \/ ApiClear
    \/ ApiEnsure

SpecStore == InitStore /\ [][NextStore]_vars

(***************************************************************************)
(* The same client with set_submit_time among its calls, which the session *)
(* only makes next to ensure_student_in_file.                               *)
(***************************************************************************)

\* The groups and the times a client passes to set_submit_time.
ApiSubmitGroups == {NetIds(1)}

ApiSubmitTimes == {None, "2026-01-12T21:51:14"}

\* set_submit_time(net_ids, submit_time).
ApiSetSubmitTime ==
    /\ pc = "api"
    /\ \E g \in ApiSubmitGroups, submit_time \in ApiSubmitTimes :
        ApiCall("set_submit_time", set_submit_time(ApiStore, g, submit_time), TRUE, 0, g)

NextPersist ==
    \/ NextStore
    \/ ApiSetSubmitTime

SpecPersist == InitStore /\ [][NextPersist]_vars

(***************************************************************************)
(* Properties.                                                             *)
(***************************************************************************)

\* What a store holds about a group: whether it is graded, its deductions
\* and its submit time.
Record(s, g) ==
    [graded |-> is_student_graded(s, g),
     deductions |-> get_student_deductions(s, g),
     submit_time |-> get_submit_time(s, g)]

NoRecord == [graded |-> FALSE, deductions |-> <<>>, submit_time |-> None]

\* The operator's "u" is carried out: run_grading returns True.
UndoStep == PromptUndo /\ last_graded_net_ids # NoNetIds

\* The state an undo leaves: the loop is at the row of the undone group.
AfterUndo == pc = "loop" /\ undone # NoNetIds /\ NetIds(idx) = undone

\* C1: while the prompt loops (the operator has not accepted a score and the
\* callback has not scored), no group becomes graded in any item.
C1_GradedOnlyByScoring ==
    [][(pc = "prompt" /\ pc' = "prompt")
        => \A i \in Items, g \in Groups :
              is_student_graded(student_deductions'[i], g)
                  => is_student_graded(student_deductions[i], g)]_vars

\* C2: entering "0" at the prompt clears the deductions of the current group
\* and shows the menu again, for the same group and item, with the score
\* equal to max_points.
C2_ZeroClearsAndLoops ==
    [][PromptZero
        => /\ pc' = "prompt"
           /\ idx' = idx
           /\ item' = item
           /\ get_student_deductions(student_deductions'[item], net_ids) = <<>>
           /\ computed_score' = MaxPoints]_vars

\* C3: whenever the menu is shown, the score shown (the value an empty input
\* returns) is max(0, max_points - total_deductions) of the store as it is
\* then, and it is never negative.
C3_ScoreIsClampedLiveTotal ==
    pc = "prompt"
        => LET total == total_deductions(student_deductions[item], net_ids)
           IN  /\ computed_score = (IF MaxPoints - total > 0 THEN MaxPoints - total ELSE 0)
               /\ computed_score >= 0
               /\ (total >= MaxPoints => computed_score = 0)

\* The menu is shown with deductions above max_points and the score 0.
C3_Witness ==
    /\ pc = "prompt"
    /\ total_deductions(student_deductions[item], net_ids) > MaxPoints
    /\ computed_score = 0

\* The sum of the points of a set of types.
RECURSIVE PointsOfSet(_, _)
PointsOfSet(types, ids) ==
    IF ids = {} THEN 0
    ELSE LET id == CHOOSE x \in ids : TRUE
         IN  types[id].points + PointsOfSet(types, ids \ {id})

\* C4: after every store operation the total of each group is the sum of the
\* points of the types applied to it; applying a type already applied (the
\* same id) changes nothing, and applying any other type of the table, even
\* one with equal message and points, appends it and adds its points.
C4_TotalAndIdempotentApply ==
    [][LET old == student_deductions[1]
           new == student_deductions'[1]
           g == ret'.net_ids
           id == ret'.id
       IN  /\ \A h \in Groups :
                 total_deductions(new, h) =
                     PointsOfSet(new.deduction_types,
                                 Range(get_student_deductions(new, h)))
           /\ ret'.op = "apply"
                => IF id \in Range(get_student_deductions(old, g))
                   THEN /\ ret'.ok
                        /\ new = old
                   ELSE IF id \in DOMAIN old.deduction_types
                   THEN /\ ret'.ok
                        /\ get_student_deductions(new, g) =
                               Append(get_student_deductions(old, g), id)
                        /\ total_deductions(new, g) =
                               total_deductions(old, g) + old.deduction_types[id].points
                   ELSE /\ ~ret'.ok
                        /\ new = old]_vars

\* Two types with equal message and points are both applied to a group.
C4_Witness ==
    /\ ret.op = "apply"
    /\ ret.ok
    /\ \E g \in Groups :
          /\ get_student_deductions(ApiStore, g) = <<1, 2>>
          /\ ApiStore.deduction_types[1] = ApiStore.deduction_types[2]

\* C5 (as claimed): undo leaves no record of the undone group and restores
\* every other group to what it was before the undone group was graded.  The
\* formula states what that requires of the step itself: the groups that are
\* neither the undone nor the current one keep their records, and so does the
\* current group in the items after the current one, whose records were
\* there before the undone group was graded.
C5_RestoresStateBeforeLastGraded ==
    [][(/\ UndoStep
        /\ \A i \in Items : is_student_graded(student_deductions[i], last_graded_net_ids))
        => \A i \in Items :
              /\ Record(student_deductions'[i], last_graded_net_ids) = NoRecord
              /\ \A g \in Groups \ {last_graded_net_ids} :
                    (g # net_ids \/ i > item)
                        => Record(student_deductions'[i], g) = Record(student_deductions[i], g)]_vars

\* C5 (amended): undo removes, from every item, the record and the submit
\* time of the undone group and of the group at whose prompt it was invoked;
\* every other group's record and every type table stay as they were.
C5_UndoClearsLastAndCurrent ==
    [][UndoStep
        => \A i \in Items :
              /\ student_deductions'[i].deduction_types = student_deductions[i].deduction_types
              /\ \A g \in Groups :
                    Record(student_deductions'[i], g) =
                        (IF g \in {last_graded_net_ids, net_ids}
                         THEN NoRecord
                         ELSE Record(student_deductions[i], g))]_vars

\* An undo has just happened and another group's grade and submit time are
\* still there.
C5_Witness ==
    /\ AfterUndo
    /\ \E i \in Items, g \in Groups \ {undone} :
          /\ is_student_graded(student_deductions[i], g)
          /\ get_submit_time(student_deductions[i], g) # None

\* C6 (as claimed): after an undo the first callback to run is the undone
\* group's.
C6_UndoneGroupPresentedNext ==
    [][(undone # NoNetIds /\ pc = "loop" /\ pc' = "callback")
        => NetIds(idx') = undone]_vars

\* C6 (amended): undo returns the loop to the row of the undone group, before
\* the row of the invoking group, with neither group graded in any item; a
\* callback started from that row is the undone group's, for its first item
\* (the row is passed over only when its code cannot be acquired).
C6_UndoReturnsToUndoneRow ==
    [][/\ UndoStep
          => /\ pc' = "loop"
             /\ NetIds(idx') = last_graded_net_ids
             /\ idx' < idx
             /\ \A i \in Items :
                   /\ ~is_student_graded(student_deductions'[i], last_graded_net_ids)
                   /\ ~is_student_graded(student_deductions'[i], net_ids)
       /\ (AfterUndo /\ pc' = "callback")
          => /\ NetIds(idx') = undone
             /\ item' = 1]_vars

\* The callback of the undone group runs again after the undo.
C6_Witness ==
    /\ pc = "callback"
    /\ undone # NoNetIds
    /\ net_ids = undone
    /\ item = 1

\* C7: an undo, from whichever item's prompt, leaves the undone group
\* ungraded in every item.
C7_UndoClearsEveryItem ==
    [][UndoStep
        => \A i \in Items :
              ~is_student_graded(student_deductions'[i], last_graded_net_ids)]_vars

\* An undo has just happened and the undone group is graded in no item.
C7_Witness ==
    /\ AfterUndo
    /\ \A i \in Items : ~is_student_graded(student_deductions[i], undone)

\* C8: there is at most one last graded group; an undo, a restart from the
\* completion menu and a new session leave none; while there is none the
\* prompt takes "u" for an invalid input and no step is an undo; and there is
\* one again only when a group has finished.
C8_SingleLevelUndo ==
    [][/\ last_graded_net_ids' \in Groups \cup {NoNetIds}
       /\ UndoStep => (last_graded_net_ids' = NoNetIds /\ prev_idx' = NoIdx)
       /\ (MenuManageGrades /\ pc' = "loop") => last_graded_net_ids' = NoNetIds
       /\ Resume => last_graded_net_ids' = NoNetIds
       /\ (pc = "prompt" /\ last_graded_net_ids = NoNetIds)
          => /\ Dispatch(student_deductions[item], <<"u">>, last_graded_net_ids) = "invalid"
             /\ ~PromptUndo
       /\ (last_graded_net_ids = NoNetIds /\ last_graded_net_ids' # NoNetIds)
          => /\ pc \in {"callback", "confirm", "prompt"}
             /\ pc' = "loop"
             /\ last_graded_net_ids' = net_ids
             /\ idx' = idx + 1]_vars

\* The prompt of the undone group, right after the undo: no undo target.
C8_Witness ==
    /\ pc = "prompt"
    /\ undone # NoNetIds
    /\ net_ids = undone
    /\ last_graded_net_ids = NoNetIds

\* C9: every type a group's record holds is in the table; a deletion of a
\* type some group has applied returns False and changes nothing, and a
\* deletion returns True exactly for a type of the table no group has
\* applied, which it removes.
C9_NoDeleteWhileInUse ==
    [][LET old == student_deductions[1]
           new == student_deductions'[1]
           id == ret'.id
           in_use == \E g \in DOMAIN old.deductions_by_students :
                        id \in Range(old.deductions_by_students[g])
       IN  /\ \A g \in DOMAIN new.deductions_by_students :
                 Range(new.deductions_by_students[g]) \subseteq DOMAIN new.deduction_types
           /\ ret'.op = "delete"
                => /\ in_use => (~ret'.ok /\ new = old)
                   /\ ret'.ok <=> (id \in DOMAIN old.deduction_types /\ ~in_use)
                   /\ ret'.ok => new = _save([old EXCEPT !.deduction_types = DictDel(@, id)])
                   /\ ~ret'.ok => new = old]_vars

\* A deletion was refused because a group has the type applied.
C9_Witness ==
    /\ ret.op = "delete"
    /\ ~ret.ok
    /\ ret.id \in DOMAIN ApiStore.deduction_types
    /\ \E g \in DOMAIN ApiStore.deductions_by_students :
          ret.id \in Range(ApiStore.deductions_by_students[g])

IsListText(txt) ==
    \/ Len(txt) > 1
    \/ txt[1] \notin {"", "0", "s", "b", "r", "n", "d", "v", "g", "u", "e"}

EveryPartIsTypeId(s, txt) ==
    \A k \in 1 .. Len(txt) :
        /\ IsNumber(txt[k])
        /\ Numbers[txt[k]] > 0
        /\ Numbers[txt[k]] \in DOMAIN s.deduction_types

PartIds(txt) == {Numbers[txt[k]] : k \in {j \in 1 .. Len(txt) : IsNumber(txt[j])}}

C11_BatchAllOrNothing ==
    [][ /\ pc = "prompt"
           => \A txt \in {t \in PromptTexts : IsListText(t)} :
                 Branch(txt) = IF EveryPartIsTypeId(student_deductions[item], txt)
                               THEN "apply" ELSE "invalid"
        /\ PromptApply
           => /\ pc' = "prompt"
              /\ \E txt \in {t \in PromptTexts : Branch(t) = "apply"} :
                    /\ EveryPartIsTypeId(student_deductions[item], txt)
                    /\ \A id \in PartIds(txt) :
                          id \in Range(get_student_deductions(student_deductions'[item], net_ids))
                    /\ student_deductions'[item].deduction_types
                          = student_deductions[item].deduction_types
                    /\ \A i \in Items \ {item} :
                          student_deductions'[i] = student_deductions[i]
        /\ PromptInvalid
           => /\ pc' = "prompt"
              /\ student_deductions' = student_deductions
      ]_vars

\* The prompt after a list of ids was applied to the group, where the lists
\* "1,x" and "1,9" (invalid after a valid first part) can be typed.
C11_Witness ==
    /\ pc = "prompt"
    /\ get_student_deductions(student_deductions[item], net_ids) = <<1>>
    /\ ~ is_student_graded(student_deductions[3 - item], net_ids)
    /\ Branch(<<"1", "1">>) = "apply"
    /\ Branch(<<"1", "x">>) = "invalid"
    /\ Branch(<<"1", "9">>) = "invalid"

\* ---------------------------------------------------------------------
\* C12: persistence is write-through. In every state of the session, for
\* every item, the deductions file holds what _write_yaml writes for the
\* store in memory (or the file was never written and the store is empty),
\* and a new process that loads the file gets the types, the groups' lists
\* and the submit times of the store in memory: a crash between two
\* operator actions loses nothing that an action had completed.
InMemory(s) ==
    [deduction_types |-> s.deduction_types,
     deductions_by_students |-> s.deductions_by_students,
     submit_time_by_students |-> s.submit_time_by_students]

C12_WriteThrough ==
    \A i \in Items :
        LET s == student_deductions[i]
        IN  /\ IF s.file.exists
               THEN s.file = _write_yaml(s)
               ELSE InMemory(s) = InMemory(EmptyStore)
            /\ InMemory(StudentDeductions(s.file)) = InMemory(s)

\* A state in which the file of an item holds a type, a group with an
\* applied deduction and a submit time, and a group whose list was cleared
\* after it was written.
C12_Witness ==
    \E i \in Items :
        LET s == student_deductions[i]
        IN  /\ s.file.exists
            /\ \E g \in DOMAIN s.file.student_deductions :
                  /\ s.file.student_deductions[g].deductions # <<>>
                  /\ s.file.student_deductions[g].submit_time # None
            /\ undone # NoNetIds
            /\ undone \notin DOMAIN s.file.student_deductions

\* ---------------------------------------------------------------------
\* C13: resuming. (a) run_grading of an item starts its callback only for
\* a group that is not graded for that item. (b) A step that is no undo
\* and passes over an item for which the group is graded leaves that
\* item's store as it was. (c) At a row whose group is graded for every
\* item the only step is to the next row: no acquisition, no callback, no
\* store changes. (d) A restart leaves every deductions file as it was.
StartsRunGrading ==
    /\ pc' = "callback"
    /\ ~(pc = "prompt" /\ item' = item /\ idx' = idx)

PassedOver ==
    IF pc' = "callback" /\ idx' = idx
    THEN {j \in Items : item < j /\ j < item'}
    ELSE IF pc' = "loop" /\ idx' = idx + 1 /\ pc # "menu"
    THEN {j \in Items : item < j}
    ELSE {}

AutoScored(l) ==
    \/ /\ pc = "callback"
       /\ CommitDateFile(idx) # "malformed"
       /\ WithinCap(student_deductions[item], l)
       /\ ProcessResult([kind |-> "list", list |-> l], CommitDate(idx))
    \/ /\ pc = "confirm"
       /\ callback_result = [kind |-> "list", list |-> l]
       /\ ProcessResult(callback_result, pending_submit_time)

MessagesOf(l) == {l[k].message : k \in 1 .. Len(l)}

AppliedMessages(s, g) ==
    {s.deduction_types[d].message : d \in Range(get_student_deductions(s, g))}

C15_CallbackFailedLeavesUngraded ==
    [][ CallbackFailed
           => /\ ~(pc' \in {"callback", "confirm", "prompt"}
                     /\ item' = item /\ idx' = idx)
              /\ ~is_student_graded(student_deductions'[item], net_ids)
      ]_vars

\* ---------------------------------------------------------------------
\* C16: "s" (Skip student) at an item's prompt ends the grading of the
\* group: the step does not start the callback of a later item for it, the
\* session moves to the next row.
C16_SkipMovesToNextGroup ==
    [][ PromptSkip
           => /\ pc' = "loop"
              /\ idx' = idx + 1
      ]_vars

\* ---------------------------------------------------------------------
\* C18: a KeyboardInterrupt while the scoring prompt waits is an exit. The
\* step ends the session and performs no store operation: every store and
\* every file is as the last completed action left it, the file being what
\* _write_yaml writes for the store; the process started next loads
\* exactly these stores.
C18_InterruptIsExit ==
    [][ /\ PromptExit
           => /\ pc' = "exit"
              /\ student_deductions' = student_deductions
              /\ \A i \in Items :
                    LET s == student_deductions'[i]
                    IN  IF s.file.exists
                        THEN s.file = _write_yaml(s)
                        ELSE InMemory(s) = InMemory(EmptyStore)
        /\ (pc = "exit" /\ Resume)
           => \A i \in Items :
                 /\ InMemory(student_deductions'[i]) = InMemory(student_deductions[i])
                 /\ student_deductions'[i].file = student_deductions[i].file
      ]_vars

\* The session has ended at the prompt of a group whose .commitdate is
\* valid, after a deduction was applied to it: the group's list is stored,
\* its submit time, which only a recorded score stores, is not.
C18_Witness ==
    /\ pc = "exit"
    /\ idx <= NumGroups
    /\ CommitDateFile(idx) = "valid"
    /\ \E i \in Items :
          /\ get_student_deductions(student_deductions[i], net_ids) = <<1>>
          /\ get_submit_time(student_deductions[i], net_ids) = None
          /\ student_deductions[i].file.student_deductions[net_ids].deductions = <<1>>

\* ---------------------------------------------------------------------
\* C19: an item added without max_points is analysis only: in every state
\* of the session its store holds no record for any group, whatever its
\* callback returned.
C19_AnalysisItemHasNoRecord ==
    \A i \in Items :
        item_max_points[i] = NoMaxPoints
           => \A g \in Groups : ~is_student_graded(student_deductions[i], g)

\* ---------------------------------------------------------------------
\* C17: the parallel build-only path records nothing. set_other_options
\* ends the process when parallel_workers is given without build_only, so
\* the workers only run with build_only set; and no step of the path, under
\* any interleaving of the workers, changes a store: no deduction applied,
\* no group marked graded, no submit time set, no deductions file written.
C17_ParallelBuildRecordsNothing ==
    [][ /\ student_deductions' = student_deductions
        /\ (set_other_options /\ parallel_workers' # NoWorkers /\ ~build_only')
              => pc' = "exit"
        /\ pc' = "parallel" => build_only'
      ]_vars

\* Two workers are in callbacks at the same time, a third task is done, and
\* the first group is graded for some item only.
C17_Witness ==
    /\ pc = "parallel"
    /\ \E r, q \in Rows :
          /\ r # q
          /\ futures[r].stage = "callback"
          /\ futures[q].stage = "callback"
          /\ futures[q].item = NumItems
    /\ \E r \in Rows : futures[r].stage = "done"
    /\ \E i, j \in Items :
          /\ is_student_graded(student_deductions[i], NetIds(1))
          /\ ~is_student_graded(student_deductions[j], NetIds(1))

\* ---------------------------------------------------------------------
\* C20: archive acquisition is idempotent. For every directory that exists
\* and holds a file, and every list of zip entries, acquisition returns
\* success and the directory as it was; and every acquisition step of a
\* worker for a group whose directory is populated leaves the directory
\* unchanged and goes on with the build, whatever the zip file holds now.
Populated(dir) == dir.exists /\ dir.files # <<>>

DirsSeen ==
    {work_path[r] : r \in Rows}
       \cup {[exists |-> TRUE, files |-> Extract(ArchiveEntries(a, r), <<>>)] :
                a \in 1 .. NumArchives, r \in Rows}

C20_AcquisitionIsIdempotent ==
    [][ /\ \A dir \in {d \in DirsSeen : Populated(d)} :
              \A a \in 1 .. NumArchives, r \in Rows :
                 _get_student_code_learning_suite(dir, ArchiveEntries(a, r))
                    = [dir |-> dir, ret |-> TRUE,
                       log |-> "Files already extracted previously."]
        /\ \A r \in Rows :
              (WorkerAcquire(r) /\ Populated(work_path[r]))
                 => /\ work_path'[r] = work_path[r]
                    /\ futures'[r].stage = "prep"
                    /\ futures'[r].log = "Files already extracted previously."
      ]_vars

\* A run started again: the acquisition of a group has found the files
\* extracted by the run before, left the directory alone and handed the
\* group on to the build.
C20_Witness ==
    \E r \in Rows :
        /\ futures[r].stage = "prep"
        /\ futures[r].log = "Files already extracted previously."
        /\ Populated(work_path[r])
        /\ work_path[r].files = Extract(ArchiveEntries(1, r), <<>>)

\* ---------------------------------------------------------------------
\* C21: duplicate submissions. After the acquisition of a group whose
\* directory did not exist, for every name to which several matching
\* entries with pairwise different date_time are extracted, the file left
\* in the directory is the one of the entry with the latest date_time, and
\* every reordering of the zip file's entries leaves the same files. The
\* number of versions only decides which names are printed with the
\* warning: the names with more than one entry; the acquisition succeeds
\* exactly when some entry matched.
EntriesNamed(entries, k) == {j \in 1 .. Len(entries) : entries[j].name = k}

DistinctTimes(entries, k) ==
    \A i, j \in EntriesNamed(entries, k) :
        i # j => entries[i].date_time # entries[j].date_time

Reorderings(entries) ==
    {[j \in 1 .. Len(entries) |-> entries[f[j]]] :
        f \in {g \in [1 .. Len(entries) -> 1 .. Len(entries)] :
                  \A i, j \in 1 .. Len(entries) : i # j => g[i] # g[j]}}

C21_LatestVersionWins ==
    pc \in {"extracted", "next row"}
       => /\ DOMAIN work_path[idx].files = {infolist[j].name : j \in 1 .. Len(infolist)}
          /\ \A k \in DOMAIN work_path[idx].files :
                DistinctTimes(infolist, k)
                   => /\ work_path[idx].files[k]
                            = Max({infolist[j].date_time : j \in EntriesNamed(infolist, k)})
                      /\ \A other \in Reorderings(infolist) :
                            Extract(other, <<>>)[k] = work_path[idx].files[k]
          /\ VersionsWarned(infolist)
                = {k \in ExtractNames : Cardinality(EntriesNamed(infolist, k)) > 1}
          /\ (pc = "extracted") = (infolist # <<>>)

\* Three versions of one file were submitted and the zip file lists the
\* latest one between the two others.
C21_Witness ==
    /\ pc = "extracted"
    /\ Len(infolist) = 3
    /\ \A j \in 1 .. 3 : infolist[j].name = "main.c"
    /\ infolist[1].date_time = 2
    /\ infolist[2].date_time = 3
    /\ infolist[3].date_time = 1
    /\ work_path[idx].files = [k \in {"main.c"} |-> 3]
    /\ VersionsWarned(infolist) = {"main.c"}

\* ---------------------------------------------------------------------
\* C22: a failed acquisition of a group's code is not fatal. The step that
\* follows it invokes no callback and writes no record: every store and
\* file is as before; the session stays in the loop over the rows, at the
\* next row; and the group passed over is not the undo target afterwards
\* (the last graded group and the row an undo returns to stay as they
\* were).
C22_AcquireFailureSkipsGroup ==
    [][ LoopAcquireFailed
           => /\ pc' = "loop"
              /\ idx' = idx + 1
              /\ item' = NoItem
              /\ student_deductions' = student_deductions
              /\ last_graded_net_ids' = last_graded_net_ids
              /\ last_graded_net_ids' # net_ids
              /\ prev_idx' = prev_idx
              /\ prev_idx' # idx
      ]_vars

\* The second group was passed over after the first one was graded: the
\* loop is at the third row, the second group has no record, and an undo
\* would still return to the first group.
C22_Witness ==
    /\ pc = "loop"
    /\ idx = 3
    /\ prev_idx = 1
    /\ last_graded_net_ids = NetIds(1)
    /\ \A i \in Items :
          /\ is_student_graded(student_deductions[i], NetIds(1))
          /\ Record(student_deductions[i], NetIds(2)) = NoRecord

\* ---------------------------------------------------------------------
\* C23: lateness. For a student whose group has a record and an assignment
\* with a due date, the effective due date is the latest of the due date
\* and the exceptions of the members of the group (an earlier exception
\* does not lower it). The student is late exactly when a submit time is
\* recorded (the latest over the items) and it is after the effective due
\* date; a submit time equal to it is on time. The score calculation
\* reports a submitted time exactly for a late student, and applies the
\* late penalty callback exactly for a late student when one is given.
GroupOf(n) == CHOOSE g \in ReportGroups : n \in Range(g)

LatestException(g) ==
    Max({due_date} \cup {due_date_exceptions[m] : m \in Range(g) \cap DOMAIN due_date_exceptions})

RecordedTimes(g) ==
    {fromisoformat[get_submit_time(student_deductions[i], g)] :
        i \in {j \in Items : get_submit_time(student_deductions[j], g) # None}}

IsLate(g) == RecordedTimes(g) # {} /\ Max(RecordedTimes(g)) > LatestException(g)

C23_LateExactlyAfterEffectiveDueDate ==
    (feedback.net_id # 0 /\ due_date # NoDate)
       => LET g == GroupOf(feedback.net_id)
              has_record == \E i \in Items : is_student_graded(student_deductions[i], g)
          IN  /\ has_record => feedback.effective_due_date = LatestException(g)
              /\ feedback.effective_due_date >= due_date
              /\ feedback.submitted_datetime
                    = (IF IsLate(g) THEN Max(RecordedTimes(g)) ELSE NoDate)
              /\ feedback.penalized => IsLate(g)
              /\ (IsLate(g) /\ feedback.score # ItemScores(1, feedback.net_id, student_deductions))
                    => feedback.penalized
              /\ \A has_callback \in BOOLEAN :
                    _calculate_student_score(feedback.net_id, student_deductions, has_callback,
                                             due_date, due_date_exceptions).penalized
                       = (has_callback /\ IsLate(g))

\* The first student has an exception before the due date, the other
\* member of the group one after it, and the group submitted exactly at
\* the later exception: on time, no penalty.
C23_Witness ==
    /\ feedback.net_id = 1
    /\ due_date = DueDate
    /\ DOMAIN due_date_exceptions = {1, 2}
    /\ due_date_exceptions[1] < DueDate
    /\ due_date_exceptions[2] > DueDate
    /\ RecordedTimes(<<1, 2>>) = {due_date_exceptions[2]}
    /\ feedback.effective_due_date = due_date_exceptions[2]
    /\ feedback.submitted_datetime = NoDate
    /\ ~feedback.penalized

C25_DeletedGroupPresentedInNewPass ==
    [][ LoopEnd => reopened = NoNetIds ]_vars

\* C25 (amended): a deletion from the completion menu reopens the work. The step
\* that deletes a group's grade removes the group's record from every item
\* and enters the loop over the rows again at the first row, with no undo
\* target and no row to go back to. In the loop, a row whose group needs a
\* grade for some item is never passed over as graded: the next step
\* starts the callback of the first such item for that group, unless the
\* group's code cannot be acquired.
C25_MenuDeletionReopensGrading ==
    [][ /\ (MenuManageGrades /\ student_deductions' # student_deductions)
           => /\ pc' = "loop"
              /\ reopened' \in AllGradedStudents(student_deductions)
              /\ student_deductions' = ClearInAllItems(student_deductions, reopened')
              /\ idx' = 1
              /\ prev_idx' = NoIdx
              /\ last_graded_net_ids' = NoNetIds
              /\ \E g \in AllGradedStudents(student_deductions) :
                    /\ student_deductions' = ClearInAllItems(student_deductions, g)
                    /\ \A i \in Items : NeedsGrade(student_deductions'[i], g)
        /\ (pc = "loop" /\ idx <= NumGroups
              /\ \E i \in Items : NeedsGrade(student_deductions[i], net_ids))
           => /\ student_deductions' = student_deductions
              /\ \/ /\ pc' = "callback"
                    /\ idx' = idx
                    /\ item' = Min({i \in Items : NeedsGrade(student_deductions[i], net_ids)})
                 \/ /\ LoopAcquireFailed
                    /\ pc' = "loop"
        /\ (reopened # NoNetIds /\ reopened' = NoNetIds /\ ~LoopEnd /\ ~Resume)
           => /\ pc' = "callback"
              /\ NetIds(idx') = reopened
              /\ item' = 1
        /\ (LoopEnd /\ reopened # NoNetIds)
           => \A i \in Items : NeedsGrade(student_deductions[i], reopened)
      ]_vars

\* The pass after the grade of the second group was deleted at the
\* completion menu has reached its row, with no undo target and no row to
\* go back to: its record is gone from every item, while the groups around
\* it are graded for every item.
C25_Witness ==
    /\ pc = "loop"
    /\ idx = 2
    /\ reopened = NetIds(2)
    /\ prev_idx = NoIdx
    /\ last_graded_net_ids = NoNetIds
    /\ \A i \in Items :
          /\ Record(student_deductions[i], NetIds(2)) = NoRecord
          /\ is_student_graded(student_deductions[i], NetIds(1))
          /\ is_student_graded(student_deductions[i], NetIds(3))
          /\ student_deductions[i].file.exists

\* ---------------------------------------------------------------------
\* C26: in every state of a store, every deduction type has points >= 0,
\* whatever operations were called on it.
C26_PointsNeverNegative ==
    \A id \in DOMAIN ApiStore.deduction_types :
        ApiStore.deduction_types[id].points >= 0

\* ---------------------------------------------------------------------
\* C27: the workflow verification stands between the callback and the
\* scoring. A callback that returns for a group whose verification fails
\* (here: a .commitdate that does not parse) changes no store and leads to
\* the question; at the question only the answer yes goes on to the scoring
\* step, and only then can a store change; the answer no leaves every store
\* as it was and ends the item for the group; any other answer asks again
\* with nothing changed.
C27_VerificationBeforeScoring ==
    [][ /\ (pc = "callback" /\ CommitDateFile(idx) = "malformed")
              => /\ student_deductions' = student_deductions
                 /\ pc' = "confirm" \/ CallbackFailed
        /\ CallbackReturnsUnverified
              => /\ student_deductions' = student_deductions
                 /\ pc' = "confirm"
        /\ (pc = "confirm" /\ student_deductions' # student_deductions)
              => /\ ConfirmYes
                 /\ callback_result.kind = "list"
        /\ ConfirmNo
              => /\ student_deductions' = student_deductions
                 /\ pc' = "loop" \/ (pc' = "callback" /\ item' > item)
        /\ pc = "confirm"
              => \/ ConfirmYes
                 \/ ConfirmNo
                 \/ /\ pc' = "confirm"
                    /\ UNCHANGED <<student_deductions, callback_result,
                                   pending_submit_time, item, idx>>
      ]_vars

\* The question is being asked about a group whose .commitdate does not
\* parse and whose callback returned a list of deductions: nothing of the
\* list is stored and the group is not graded for the item.
C27_Witness ==
    /\ pc = "confirm"
    /\ CommitDateFile(idx) = "malformed"
    /\ callback_result.kind = "list"
    /\ callback_result.list # <<>>
    /\ ~is_student_graded(student_deductions[item], net_ids)
    /\ get_student_deductions(student_deductions[item], net_ids) = <<>>

\* ---------------------------------------------------------------------
\* C28: the flags of the callback. The first invocation for a group and an
\* item gets build = TRUE, or FALSE when run_only is set, and run = not
\* build_only; the invocation after Rerun gets build = FALSE, the one after
\* Build gets build = TRUE; and every invocation sets the flag again, so
\* that a rerun holds for one invocation.
C28_BuildRunFlags ==
    [][ /\ (pc' = "callback" /\ (pc = "loop" \/ item' # item))
              => /\ CallbackArgs'.build = ~run_only
                 /\ CallbackArgs'.run = ~build_only
        /\ PromptRerun => CallbackArgs'.build = FALSE
        /\ PromptBuild => CallbackArgs'.build = TRUE
        /\ pc = "callback" => build' = TRUE
      ]_vars

\* C28, amended: as above, but the invocation after Build gets build = TRUE
\* only when run_only is not set; with run_only every invocation gets
\* build = FALSE, whatever the operator chose.
C28_BuildFlagUnlessRunOnly ==
    [][ /\ (pc' = "callback" /\ (pc = "loop" \/ item' # item))
              => /\ CallbackArgs'.build = ~run_only
                 /\ CallbackArgs'.run = ~build_only
        /\ PromptRerun => CallbackArgs'.build = FALSE
        /\ PromptBuild => CallbackArgs'.build = ~run_only
        /\ pc' = "callback" => CallbackArgs'.run = ~build_only
        /\ (pc' = "callback" /\ run_only) => CallbackArgs'.build = FALSE
        /\ pc = "callback" => build' = TRUE
        /\ UNCHANGED <<run_only, build_only>>
      ]_vars

\* With run_only set the callback is about to be called again after Build:
\* the operator applied a deduction at the prompt of this item and asked for
\* a build (a rerun would have cleared the local flag).
C28_Witness ==
    /\ pc = "callback"
    /\ run_only
    /\ build
    /\ get_student_deductions(student_deductions[item], net_ids) # <<>>

\* ---------------------------------------------------------------------
\* C29: find_or_create_deduction_type(message, points). FoundTypes(m) are
\* the ids of the types with message m before the call.
FoundTypes(message) ==
    {id \in DOMAIN ApiStore.deduction_types :
        ApiStore.deduction_types[id].message = message}

\* The call returned the id of a type with an equal message and changed
\* nothing.
ReturnedExisting(message) ==
    /\ FoundTypes(message) # {}
    /\ ret'.ok
    /\ ret'.id \in FoundTypes(message)
    /\ student_deductions' = student_deductions

\* The call created exactly one type, with the message and the points, under
\* an id that was not in use, and returned that id.
CreatedOne(message, points) ==
    /\ FoundTypes(message) = {}
    /\ ret'.ok
    /\ ret'.id \notin DOMAIN ApiStore.deduction_types
    /\ DOMAIN ApiStore'.deduction_types = DOMAIN ApiStore.deduction_types \cup {ret'.id}
    /\ ApiStore'.deduction_types[ret'.id] = [message |-> message, points |-> points]
    /\ \A id \in DOMAIN ApiStore.deduction_types :
          ApiStore'.deduction_types[id] = ApiStore.deduction_types[id]
    /\ ApiStore'.deductions_by_students = ApiStore.deductions_by_students

\* The call raised ValueError and changed nothing.
RaisedOnNegative(message, points) ==
    /\ FoundTypes(message) = {}
    /\ points < 0
    /\ ~ret'.ok
    /\ student_deductions' = student_deductions

C30_LastGradedIsGraded ==
    [][ (last_graded_net_ids' # last_graded_net_ids /\ last_graded_net_ids' # NoNetIds)
          => \A i \in Items :
                is_student_graded(student_deductions'[i], last_graded_net_ids')
      ]_vars

\* ---------------------------------------------------------------------
\* C31: the completion menu ("All students have been graded!") is on the
\* screen only when every group of the roster is graded for every item.
C31_MenuOnlyWhenAllGraded ==
    pc = "menu"
       => \A r \in 1 .. NumGroups, i \in Items :
             is_student_graded(student_deductions[i], NetIds(r))

\* ---------------------------------------------------------------------
\* C32: what a manage-grades dialog does to the stores sd when the operator
\* selects the group g and answers the confirmation with confirm.
DeletedEverywhere(sd, after, g) ==
    \A i \in Items :
       /\ Record(after[i], g) = NoRecord
       /\ \A h \in Groups \ {g} : Record(after[i], h) = Record(sd[i], h)
       /\ after[i].deduction_types = sd[i].deduction_types

\* C32: at the completion menu, selecting a graded group and confirming with "y"
\* removes that group's record and submit time from the store of every item
\* and changes no other group's record and no deduction type; any other
\* confirmation changes no store. And every manage-grades step of the
\* session, at the prompt or at the completion menu, leaves the stores of
\* one such dialog.
C32_ManageGradesDeletion ==
    [][ /\ (pc = "menu" /\ pc' = "menu")
              => \A g \in AllGradedStudents(student_deductions), confirm \in ConfirmTexts :
                    LET managed == ManageGrades(student_deductions, g, confirm)
                    IN  IF confirm = "y"
                        THEN /\ managed.deleted
                             /\ DeletedEverywhere(student_deductions, managed.stores, g)
                        ELSE /\ ~managed.deleted
                             /\ managed.stores = student_deductions
        /\ (/\ student_deductions' # student_deductions
            /\ pc \in {"menu", "prompt"}
            /\ MenuManageGrades \/ PromptManageGrades)
              => \E g \in AllGradedStudents(student_deductions) :
                    DeletedEverywhere(student_deductions, student_deductions', g)
      ]_vars

\* The second group's grade, which had a submit time, was deleted at the
\* completion menu: it has no record in any store, the first group is graded
\* for every item as before and a deduction type is still in the table.
C32_Witness ==
    /\ pc = "loop"
    /\ idx = 1
    /\ reopened = NetIds(2)
    /\ \A i \in Items :
          /\ Record(student_deductions[i], NetIds(2)) = NoRecord
          /\ is_student_graded(student_deductions[i], NetIds(1))
    /\ \E i \in Items : student_deductions[i].deduction_types # <<>>

\* ---------------------------------------------------------------------
\* C33: a submit time is saved only with a grade. After every step of the
\* session, a group that has a submit time in an item's store is graded in
\* that store; and a step that writes a submit time writes it for the
\* current group and item, in a step that ends run_grading for the item
\* (an accepted score, or a list applied on the callback's return or after
\* the confirmation), never in one that loops, skips, undoes or exits.
C33_SubmitTimeOnlyWithGrade ==
    [][ \A i \in Items, g \in Groups :
           /\ get_submit_time(student_deductions'[i], g) # None
                 => is_student_graded(student_deductions'[i], g)
           /\ (/\ get_submit_time(student_deductions'[i], g) # None
               /\ get_submit_time(student_deductions'[i], g)
                     # get_submit_time(student_deductions[i], g))
                 => /\ g = net_ids
                    /\ i = item
                    /\ pc \in {"prompt", "callback", "confirm"}
                    /\ pc' \notin {"prompt", "exit", "error"}
                    /\ pc = "prompt" => PromptAccept \/ PromptZero
                    /\ ~(PromptSkip \/ PromptUndo \/ PromptExit \/ CallbackFailed
                           \/ ConfirmNo)
      ]_vars

\* The second group, whose .commitdate holds a date, has its score for the
\* first item recorded with the submit time, and the session is at its
\* second item, for which it has neither a grade nor a submit time.
C33_Witness ==
    /\ idx = 2
    /\ item = 2
    /\ pc = "prompt"
    /\ get_submit_time(student_deductions[1], net_ids) = CommitDate(2)
    /\ is_student_graded(student_deductions[1], net_ids)
    /\ Record(student_deductions[2], net_ids) = NoRecord

\* ---------------------------------------------------------------------
\* C34: the undo target and the row an undo returns to agree. After every
\* step, a recorded last graded group comes with a previous index, and the
\* row at that index is the row of that group; so every undo that is
\* carried out moves the loop to the row of the group whose records it
\* cleared.
C34_UndoTargetIsPreviousRow ==
    [][ /\ last_graded_net_ids' # NoNetIds
              => /\ prev_idx' # NoIdx
                 /\ NetIds(prev_idx') = last_graded_net_ids'
        /\ UndoStep
              => /\ pc' = "loop"
                 /\ idx' = prev_idx
                 /\ NetIds(idx') = last_graded_net_ids
                 /\ \A i \in Items :
                       Record(student_deductions'[i], last_graded_net_ids) = NoRecord
      ]_vars

\* An undo has been carried out and went back to the first group: the loop
\* is at the first row, the records of the undone group and of the group
\* the undo was typed for are cleared (no group has a record), a deduction
\* type remains, and no undo target is left.
C34_Witness ==
    /\ AfterUndo
    /\ idx = 1
    /\ last_graded_net_ids = NoNetIds
    /\ prev_idx = NoIdx
    /\ \A i \in Items :
          /\ Record(student_deductions[i], NetIds(1)) = NoRecord
          /\ Record(student_deductions[i], NetIds(2)) = NoRecord
          /\ Record(student_deductions[i], NetIds(3)) = NoRecord
    /\ \E i \in Items : student_deductions[i].deduction_types # <<>>

\* ---------------------------------------------------------------------
\* C35: what a store tells about itself: the type table, the set of graded
\* groups, every group's ordered deduction ids and every group's submit
\* time.
Observed(s) ==
    [deduction_types |-> s.deduction_types,
     graded |-> {g \in Groups : is_student_graded(s, g)},
     deductions |-> [g \in Groups |-> get_student_deductions(s, g)],
     submit_times |-> [g \in Groups |-> get_submit_time(s, g)]]

\* C35: after any sequence of store operations that wrote the file, a new
\* StudentDeductions loaded from the file has the same type table, the same
\* graded groups, the same ordered deduction ids per group and the same
\* submit times as the store in memory.
C35_ReloadRoundTrip ==
    ApiStore.file.exists
       => Observed(StudentDeductions(ApiStore.file)) = Observed(ApiStore)

\* ---------------------------------------------------------------------
\* C36: deduction types are shared by the groups of an item. A
\* change_deduction_value(id, p) on a type of the table changes the total
\* of every group that has the type applied by p minus the old points,
\* graded groups included, and the total of no other group; no list and no
\* other type changes; with an id that is not in the table it returns
\* False and changes nothing.
C36_ChangeValueIsShared ==
    [][ (ret'.op = "change" /\ ApiChangeValue)
          => IF ret'.id \in DOMAIN ApiStore.deduction_types
             THEN /\ ret'.ok
                  /\ ApiStore'.deduction_types[ret'.id].points \in ApiNewPoints
                  /\ \A g \in Groups :
                        total_deductions(ApiStore', g) - total_deductions(ApiStore, g)
                           = IF ret'.id \in Range(get_student_deductions(ApiStore, g))
                             THEN ApiStore'.deduction_types[ret'.id].points
                                     - ApiStore.deduction_types[ret'.id].points
                             ELSE 0
                  /\ ApiStore'.deductions_by_students = ApiStore.deductions_by_students
                  /\ DOMAIN ApiStore'.deduction_types = DOMAIN ApiStore.deduction_types
                  /\ \A id \in DOMAIN ApiStore.deduction_types \ {ret'.id} :
                        ApiStore'.deduction_types[id] = ApiStore.deduction_types[id]
             ELSE /\ ~ret'.ok
                  /\ student_deductions' = student_deductions
      ]_vars

\* A change has just given a type other points than add_deduction_type
\* stored; one group has that type and another type applied, a second group
\* is graded with the other type only, and their totals differ by the
\* changed type's points.
C36_Witness ==
    /\ pc = "api"
    /\ ret.op = "change"
    /\ ret.ok
    /\ ret.id \in DOMAIN ApiStore.deduction_types
    /\ ApiStore.deduction_types[ret.id].points \notin ApiPoints
    /\ \E g, h \in Groups :
          /\ ret.id \in Range(get_student_deductions(ApiStore, g))
          /\ Len(get_student_deductions(ApiStore, g)) = 2
          /\ is_student_graded(ApiStore, h)
          /\ Len(get_student_deductions(ApiStore, h)) = 1
          /\ ret.id \notin Range(get_student_deductions(ApiStore, h))
          /\ total_deductions(ApiStore, g) - total_deductions(ApiStore, h)
                = ApiStore.deduction_types[ret.id].points

\* ---------------------------------------------------------------------
\* C37: the frame of the operations on one group. A step of
\* apply_deduction_to_student, clear_student_deductions,
\* ensure_student_in_file or set_submit_time for a group leaves the list,
\* the graded flag and the submit time of every other group and the type
\* table as they were; apply_deduction_to_student with an id that is not in
\* the table returns False and leaves the store, the group's missing record
\* included, as it was; and no operation on the store of one item changes
\* the store of another item.
PerGroupOps == {"apply", "clear", "ensure", "set_submit_time"}

C37_PerGroupFrame ==
    [][ /\ ret'.op \in PerGroupOps
              => /\ \A h \in Groups \ {ret'.net_ids} :
                       Record(ApiStore', h) = Record(ApiStore, h)
                 /\ ApiStore'.deduction_types = ApiStore.deduction_types
        /\ (ret'.op = "apply" /\ ret'.id \notin DOMAIN ApiStore.deduction_types)
              => /\ ~ret'.ok
                 /\ ApiStore' = ApiStore
                 /\ is_student_graded(ApiStore', ret'.net_ids)
                       = is_student_graded(ApiStore, ret'.net_ids)
        /\ \A i \in Items \ {1} : student_deductions'[i] = student_deductions[i]
      ]_vars

\* apply_deduction_to_student has just returned False for a group that has
\* no record, next to a group with a submit time and a group with a
\* deduction applied.
C37_Witness ==
    /\ pc = "api"
    /\ ret.op = "apply"
    /\ ~ret.ok
    /\ Record(ApiStore, ret.net_ids) = NoRecord
    /\ \E h \in Groups : get_submit_time(ApiStore, h) # None
    /\ \E h \in Groups : get_student_deductions(ApiStore, h) # <<>>

\* ---------------------------------------------------------------------
\* C38: a list with a negative pair is refused as a whole. The step in which
\* the callback has returned such a list ends in the error and leaves every
\* store as it was: no pair of the list is applied, the pairs before the
\* negative one included, and the group is not marked graded.
C38_NegativeListLeavesStore ==
    [][ CallbackReturnsNegative
          => /\ pc' = "error"
             /\ student_deductions' = student_deductions
      ]_vars

\* ---------------------------------------------------------------------
\* C39: for every student and every combination of deductions, the total
\* written in the student's feedback text is the score written for the
\* student in the grades CSV, with and without a late penalty.
C39_FeedbackTotalIsCsvScore ==
    feedback.net_id # 0 => feedback.text_score = feedback.score

\* ---------------------------------------------------------------------
\* C40: progress of a pass. The step relation of a pass: a step that is no
\* undo leaves the index or adds one to it, and adds one exactly when it
\* leaves a row; the step that follows an acquisition invokes the callback
\* of the first item the group needs a grade for, and the end of an item
\* without undo invokes the callback of the next such item or leaves the
\* row; an undo that is carried out goes back to the row presented before,
\* which it can do once, or else goes on to the next row.
InRunGrading == pc \in {"callback", "confirm", "prompt"}

ItemsNeeded(sd, k) == {j \in Items : j >= k /\ ~is_student_graded(sd[j], net_ids)}

PassStep ==
    /\ ~UndoStep => idx' \in {idx, idx + 1}
    /\ ~UndoStep => (idx' = idx + 1 <=> pc' = "loop")
    /\ (pc = "loop" /\ pc' = "callback")
          => /\ idx' = idx
             /\ item' = Min(ItemsNeeded(student_deductions, 1))
    /\ (InRunGrading /\ ~UndoStep /\ (item' # item \/ pc' = "loop"))
          => IF ItemsNeeded(student_deductions', item + 1) # {}
             THEN /\ pc' = "callback"
                  /\ item' = Min(ItemsNeeded(student_deductions', item + 1))
             ELSE pc' = "loop"
    /\ UndoStep
          => /\ pc' = "loop"
             /\ prev_idx' = NoIdx \/ prev_idx = NoIdx
             /\ idx' = IF prev_idx # NoIdx THEN prev_idx ELSE idx + 1

\* C40: every step of a pass is a PassStep, and a pass in which the
\* operator chooses undo finitely often reaches the completion step.
C40_PassProgress ==
    /\ [][PassStep]_vars
    /\ (<>[][~PromptUndo]_vars) => <>(pc = "menu")

\* C40, amended: the pass reaches the completion step when the operator
\* chooses undo, build and rerun finitely often.
C40_PassProgressUnlessRerunForever ==
    /\ [][PassStep]_vars
    /\ (<>[][~(PromptUndo \/ PromptBuild \/ PromptRerun)]_vars) => <>(pc = "menu")

\* The completion step is reached with every group graded for every item,
\* the last of them recorded as the last graded group.
C40_Witness ==
    /\ pc = "menu"
    /\ idx = NumGroups + 1
    /\ prev_idx = NumGroups
    /\ last_graded_net_ids = NetIds(NumGroups)
    /\ \A r \in 1 .. NumGroups, i \in Items :
          is_student_graded(student_deductions[i], NetIds(r))
====
